---- MODULE Spec2Model ----
(***************************************************************************)
(* FedRAMP baseline constraint validation engine                           *)
(* (services/api/app/services/fedramp_service.py).                         *)
(*                                                                         *)
(* The document tree is an untyped JSON value; the checkers reach into it  *)
(* with dict.get, "in", truthiness tests and string methods, and any of    *)
(* these raises on a value of the wrong shape.  The model keeps the JSON   *)
(* type of every value so that those failures are computed, not assumed.   *)
(***************************************************************************)
EXTENDS Integers, Sequences, FiniteSets, TLC

VARIABLES
    baseline_requirements,  \* FedRAMPConstraintValidator.baseline_requirements
    hash_seed,              \* the interpreter's string-hash seed, fixed per process
    vs,                     \* the frame of the validate_ssp call
    vd,                     \* the frame of the validate_document call
    calls,                  \* the validate_ssp calls of concurrent callers
    request,                \* the frame of the HTTP request being handled
    operations,             \* the Operation records created, oldest first
    db_up                   \* the database accepts flushes and commits

vars == <<baseline_requirements, hash_seed, vs, vd, calls, request, operations, db_up>>

(***************************************************************************)
(* Bounds of the model.                                                    *)
(***************************************************************************)
\* A document differs from a base document (the empty plan or the complete
\* plan) in at most this many sections.
MaxEdits == 1
\* The process runs under one of the seeds 0..MaxHashSeed.
MaxHashSeed == 1
\* At most this many callers have a validate_ssp call in progress at once.
MaxCallers == 2
\* A batch request whose files differ in kind, or during which the database
\* becomes unreachable, has at most this many files.
MaxFiles == 3

(***************************************************************************)
(* JSON values as Python sees them after json.load: a tag and a payload.   *)
(* Absent is not a value: it marks a key that a document leaves out.       *)
(***************************************************************************)
Null == [t |-> "null", v |-> ""]
Num(n) == [t |-> "num", v |-> n]
Str(s) == [t |-> "str", v |-> s]
List(l) == [t |-> "list", v |-> l]
Map(f) == [t |-> "map", v |-> f]
Absent == [t |-> "absent", v |-> ""]

EmptyMap == Map(<<>>)
EmptyList == List(<<>>)

\* A dict literal: the pairs <<key, value>>, from index i on, whose value is
\* not Absent.
RECURSIVE MapOf(_, _)
MapOf(pairs, i) ==
    IF i > Len(pairs) THEN <<>>
    ELSE IF pairs[i][2].t = "absent" THEN MapOf(pairs, i + 1)
    ELSE (pairs[i][1] :> pairs[i][2]) @@ MapOf(pairs, i + 1)

MkMap(pairs) == Map(MapOf(pairs, 1))

(***************************************************************************)
(* Python operations on values.                                            *)
(***************************************************************************)
\* x has a .get method (x is a dict); on anything else x.get raises
\* AttributeError.
HasGet(x) == x.t = "map"

\* d.get(k, default) for a dict d.
Get(d, k, default) == IF k \in DOMAIN d.v THEN d.v[k] ELSE default

\* bool(x): None, False, 0, "", [] and {} are falsy.
Truthy(x) ==
    CASE x.t = "null" -> FALSE
      [] x.t = "bool" -> x.v
      [] x.t = "num"  -> x.v # 0
      [] x.t = "str"  -> Len(x.v) > 0
      [] x.t = "list" -> Len(x.v) > 0
      [] x.t = "map"  -> DOMAIN x.v # {}

\* a in b for two strings: a is a substring of b.
Substring(a, b) ==
    \E i \in 1..(Len(b) - Len(a) + 1) : SubSeq(b, i, i + Len(a) - 1) = a

\* "k in c" is defined for dicts (a key), lists (an element) and strings (a
\* substring); on None, numbers and booleans it raises TypeError.
CanContain(c) == c.t \in {"map", "list", "str"}

Contains(k, c) ==
    CASE c.t = "map"  -> k \in DOMAIN c.v
      [] c.t = "list" -> \E i \in 1..Len(c.v) : c.v[i].t = "str" /\ c.v[i].v = k
      [] c.t = "str"  -> Substring(k, c.v)

\* "for e in x" is defined for lists, strings and dicts; on None, numbers and
\* booleans it raises TypeError.
Iterable(x) == x.t \in {"list", "str", "map"}

\* The keys of a dict in the order the iteration yields them.
RECURSIVE KeySeq(_)
KeySeq(ks) ==
    IF ks = {} THEN <<>>
    ELSE LET k == CHOOSE k \in ks : TRUE IN <<k>> \o KeySeq(ks \ {k})

\* The elements "for e in x" yields: the items of a list, the characters of
\* a string, the keys of a dict.
Elems(x) ==
    CASE x.t = "list" -> x.v
      [] x.t = "str"  -> [i \in 1..Len(x.v) |-> Str(SubSeq(x.v, i, i))]
      [] x.t = "map"  -> LET ks == KeySeq(DOMAIN x.v)
                         IN  [i \in 1..Len(ks) |-> Str(ks[i])]

UpperLetters ==
    {"A", "B", "C", "D", "E", "F", "G", "H", "I", "J", "K", "L", "M",
     "N", "O", "P", "Q", "R", "S", "T", "U", "V", "W", "X", "Y", "Z"}

LowerLetters ==
    {"a", "b", "c", "d", "e", "f", "g", "h", "i", "j", "k", "l", "m",
     "n", "o", "p", "q", "r", "s", "t", "u", "v", "w", "x", "y", "z"}

\* The position of character c in string s, 0 when absent.
IndexOf(c, s) ==
    IF \E i \in 1..Len(s) : SubSeq(s, i, i) = c
    THEN CHOOSE i \in 1..Len(s) : SubSeq(s, i, i) = c
    ELSE 0

LowerChar(c) ==
    IF c \notin UpperLetters THEN c
    ELSE CASE c = "A" -> "a"
           [] c = "B" -> "b"
           [] c = "C" -> "c"
           [] c = "D" -> "d"
           [] c = "E" -> "e"
           [] c = "F" -> "f"
           [] c = "G" -> "g"
           [] c = "H" -> "h"
           [] c = "I" -> "i"
           [] c = "J" -> "j"
           [] c = "K" -> "k"
           [] c = "L" -> "l"
           [] c = "M" -> "m"
           [] c = "N" -> "n"
           [] c = "O" -> "o"
           [] c = "P" -> "p"
           [] c = "Q" -> "q"
           [] c = "R" -> "r"
           [] c = "S" -> "s"
           [] c = "T" -> "t"
           [] c = "U" -> "u"
           [] c = "V" -> "v"
           [] c = "W" -> "w"
           [] c = "X" -> "x"
           [] c = "Y" -> "y"
           [] c = "Z" -> "z"

UpperChar(c) ==
    IF c \notin LowerLetters THEN c
    ELSE CASE c = "a" -> "A"
           [] c = "b" -> "B"
           [] c = "c" -> "C"
           [] c = "d" -> "D"
           [] c = "e" -> "E"
           [] c = "f" -> "F"
           [] c = "g" -> "G"
           [] c = "h" -> "H"
           [] c = "i" -> "I"
           [] c = "j" -> "J"
           [] c = "k" -> "K"
           [] c = "l" -> "L"
           [] c = "m" -> "M"
           [] c = "n" -> "N"
           [] c = "o" -> "O"
           [] c = "p" -> "P"
           [] c = "q" -> "Q"
           [] c = "r" -> "R"
           [] c = "s" -> "S"
           [] c = "t" -> "T"
           [] c = "u" -> "U"
           [] c = "v" -> "V"
           [] c = "w" -> "W"
           [] c = "x" -> "X"
           [] c = "y" -> "Y"
           [] c = "z" -> "Z"

\* str.lower()
RECURSIVE Lower(_)
Lower(s) ==
    IF Len(s) = 0 THEN ""
    ELSE LowerChar(SubSeq(s, 1, 1)) \o Lower(SubSeq(s, 2, Len(s)))

\* str.upper()
RECURSIVE Upper(_)
Upper(s) ==
    IF Len(s) = 0 THEN ""
    ELSE UpperChar(SubSeq(s, 1, 1)) \o Upper(SubSeq(s, 2, Len(s)))

IsLetter(c) == c \in UpperLetters \/ c \in LowerLetters

\* str.title(): a letter that follows a non-letter is capitalised, every
\* other letter is lower-cased.
RECURSIVE TitleFrom(_, _)
TitleFrom(s, afterLetter) ==
    IF Len(s) = 0 THEN ""
    ELSE LET c == SubSeq(s, 1, 1)
         IN  (IF afterLetter THEN LowerChar(c) ELSE UpperChar(c))
             \o TitleFrom(SubSeq(s, 2, Len(s)), IsLetter(c))

Title(s) == TitleFrom(s, FALSE)

IsSpace(c) == c \in {" ", "\t", "\n", "\r"}

RECURSIVE LStrip(_)
LStrip(s) ==
    IF Len(s) > 0 /\ IsSpace(SubSeq(s, 1, 1)) THEN LStrip(SubSeq(s, 2, Len(s))) ELSE s

RECURSIVE RStrip(_)
RStrip(s) ==
    IF Len(s) > 0 /\ IsSpace(SubSeq(s, Len(s), Len(s)))
    THEN RStrip(SubSeq(s, 1, Len(s) - 1))
    ELSE s

\* str.strip()
Strip(s) == RStrip(LStrip(s))

\* str(x) as an f-string renders it; the text of a list or dict is not
\* spelled out.
PyStr(x) ==
    CASE x.t = "str"  -> x.v
      [] x.t = "null" -> "None"
      [] x.t = "bool" -> IF x.v THEN "True" ELSE "False"
      [] x.t = "num"  -> ToString(x.v)
      [] x.t = "list" -> "[...]"
      [] x.t = "map"  -> "{...}"

(***************************************************************************)
(* The baseline requirement registry, as _load_baseline_requirements       *)
(* builds it.                                                              *)
(***************************************************************************)
LowRequiredControls ==
    <<
      "ac-1", "ac-2", "ac-3", "ac-7", "ac-8", "ac-14", "ac-17", "ac-18", "ac-19", "ac-20", "ac-22",
      "at-1", "at-2", "at-3", "at-4", "au-1", "au-2", "au-3", "au-4", "au-5", "au-6", "au-8",
      "au-9", "au-11", "au-12", "ca-1", "ca-2", "ca-3", "ca-5", "ca-6", "ca-7", "ca-9", "cm-1",
      "cm-2", "cm-4", "cm-5", "cm-6", "cm-7", "cm-8", "cm-10", "cm-11", "cp-1", "cp-2", "cp-3",
      "cp-4", "cp-9", "cp-10", "ia-1", "ia-2", "ia-4", "ia-5", "ia-6", "ia-7", "ia-8", "ir-1",
      "ir-2", "ir-4", "ir-5", "ir-6", "ir-7", "ir-8", "ma-1", "ma-2", "ma-4", "ma-5", "mp-1",
      "mp-2", "mp-6", "mp-7", "pe-1", "pe-2", "pe-3", "pe-6", "pe-8", "pe-12", "pe-13", "pe-14",
      "pe-15", "pe-16", "pl-1", "pl-2", "pl-4", "ps-1", "ps-2", "ps-3", "ps-4", "ps-5", "ps-6",
      "ps-7", "ps-8", "ra-1", "ra-2", "ra-3", "ra-5", "sa-1", "sa-2", "sa-3", "sa-4", "sa-5",
      "sa-9", "sc-1", "sc-2", "sc-4", "sc-5", "sc-7", "sc-12", "sc-13", "sc-15", "sc-20", "sc-21",
      "sc-22", "si-1", "si-2", "si-3", "si-4", "si-5", "si-12"
    >>

ModerateRequiredControls ==
    <<
      "ac-1", "ac-2", "ac-3", "ac-4", "ac-5", "ac-6", "ac-7", "ac-8", "ac-11", "ac-12", "ac-14",
      "ac-17", "ac-18", "ac-19", "ac-20", "ac-22", "at-1", "at-2", "at-3", "at-4", "au-1", "au-2",
      "au-3", "au-4", "au-5", "au-6", "au-7", "au-8", "au-9", "au-10", "au-11", "au-12", "ca-1",
      "ca-2", "ca-3", "ca-5", "ca-6", "ca-7", "ca-8", "ca-9", "cm-1", "cm-2", "cm-3", "cm-4",
      "cm-5", "cm-6", "cm-7", "cm-8", "cm-9", "cm-10", "cm-11", "cp-1", "cp-2", "cp-3", "cp-4",
      "cp-6", "cp-7", "cp-8", "cp-9", "cp-10", "ia-1", "ia-2", "ia-3", "ia-4", "ia-5", "ia-6",
      "ia-7", "ia-8", "ia-11", "ir-1", "ir-2", "ir-3", "ir-4", "ir-5", "ir-6", "ir-7", "ir-8",
      "ma-1", "ma-2", "ma-3", "ma-4", "ma-5", "ma-6", "mp-1", "mp-2", "mp-3", "mp-4", "mp-5",
      "mp-6", "mp-7", "pe-1", "pe-2", "pe-3", "pe-4", "pe-5", "pe-6", "pe-8", "pe-9", "pe-10",
      "pe-11", "pe-12", "pe-13", "pe-14", "pe-15", "pe-16", "pe-17", "pl-1", "pl-2", "pl-4", "pl-8",
      "ps-1", "ps-2", "ps-3", "ps-4", "ps-5", "ps-6", "ps-7", "ps-8", "ra-1", "ra-2", "ra-3",
      "ra-5", "sa-1", "sa-2", "sa-3", "sa-4", "sa-5", "sa-8", "sa-9", "sa-10", "sc-1", "sc-2",
      "sc-3", "sc-4", "sc-5", "sc-7", "sc-8", "sc-10", "sc-11", "sc-12", "sc-13", "sc-15", "sc-17",
      "sc-18", "sc-19", "sc-20", "sc-21", "sc-22", "sc-23", "si-1", "si-2", "si-3", "si-4", "si-5",
      "si-6", "si-7", "si-8", "si-10", "si-11", "si-12"
    >>

HighRequiredControls == <<>>

LoadBaselineRequirements ==
    [low |->
        [required_controls |-> LowRequiredControls,
         min_controls |-> 108,
         required_metadata |-> <<"system_name", "system_id", "authorization_boundary">>],
     moderate |->
        [required_controls |-> ModerateRequiredControls,
         min_controls |-> 325,
         required_metadata |->
            <<"system_name", "system_id", "authorization_boundary", "data_types">>],
     high |->
        [required_controls |-> HighRequiredControls,
         min_controls |-> 421,
         required_metadata |->
            <<"system_name", "system_id", "authorization_boundary", "data_types",
              "system_categorization", "high_water_mark">>]]

\* A variant that reads an unknown baseline as the default one.
BaselineReqs_DefaultsToModerate(reg, baseline) ==
    IF baseline.t = "str" /\ baseline.v \in DOMAIN reg
    THEN reg[baseline.v]
    ELSE reg["moderate"]

\* self.baseline_requirements.get(baseline, {}) followed by the .get calls
\* with their defaults: an unknown baseline reads as the defaults.
BaselineReqs(reg, baseline) ==
    IF baseline.t = "str" /\ baseline.v \in DOMAIN reg
    THEN reg[baseline.v]
    ELSE [required_controls |-> <<>>, min_controls |-> 0, required_metadata |-> <<>>]

\* The local table of _validate_required_artifacts, read with
\* required_artifacts.get(baseline, []).
RequiredArtifacts(baseline) ==
    LET required_artifacts ==
            [low |-> <<"system-security-plan", "rules-of-behavior">>,
             moderate |->
                <<"system-security-plan", "rules-of-behavior",
                  "privacy-impact-assessment", "contingency-plan",
                  "configuration-management-plan">>,
             high |->
                <<"system-security-plan", "rules-of-behavior",
                  "privacy-impact-assessment", "contingency-plan",
                  "configuration-management-plan", "incident-response-plan",
                  "system-security-architecture", "penetration-test-results">>]
    IN  IF baseline.t = "str" /\ baseline.v \in DOMAIN required_artifacts
        THEN required_artifacts[baseline.v]
        ELSE <<>>

(***************************************************************************)
(* Issues and what a checker hands back.                                   *)
(***************************************************************************)
\* FedRAMPValidationIssue.  baseline is the value passed or Null; context is
\* the exception type of an engine-level issue or "".  requirement and
\* suggested_fix are fixed texts per code and are left out.
Issue(severity, code, message, location, baseline, context) ==
    [severity |-> severity, code |-> code, message |-> message,
     location |-> location, baseline |-> baseline, context |-> context]

\* A checker either returns its issues or raises; what it had collected
\* before it raised is lost with its local list.
Ok(issues) == [exc |-> "", issues |-> issues]
Raise(exc) == [exc |-> exc, issues |-> <<>>]

\* x.strip() is about to be called on a truthy x that is no string.
TextRaises(x) == Truthy(x) /\ x.t # "str"

\* A variant that measures the text without trimming it.
ShortText_Untrimmed(x, n) == ~Truthy(x) \/ Len(x.v) < n

\* "not x or len(x.strip()) < n" for x falsy or a string.
ShortText(x, n) == ~Truthy(x) \/ Len(Strip(x.v)) < n

(***************************************************************************)
(* 1. _validate_ssp_structure                                              *)
(***************************************************************************)
\* A variant of the list without its last element.
required_elements_WithoutLast ==
    <<"system-security-plan", "uuid", "metadata", "system-characteristics",
      "system-implementation">>

required_elements ==
    <<"system-security-plan", "uuid", "metadata", "system-characteristics",
      "system-implementation", "control-implementation">>

HexLower == "0123456789abcdef"

\* uuid_pattern.match(s) for a string s.  "$" matches at the end of the
\* string and also just before a newline that ends it.
UuidPatternMatch(s) ==
    /\ \/ Len(s) = 36
       \/ Len(s) = 37 /\ SubSeq(s, 37, 37) = "\n"
    /\ \A i \in 1..36 :
          IF i \in {9, 14, 19, 24}
          THEN SubSeq(s, i, i) = "-"
          ELSE IndexOf(SubSeq(s, i, i), HexLower) # 0

MissingElementIssue(element) ==
    Issue("error", "FEDRAMP_MISSING_ELEMENT",
          "Required element '" \o element \o "' is missing from SSP",
          "system-security-plan." \o element, Null, "")

InvalidUuidIssue ==
    Issue("error", "FEDRAMP_INVALID_UUID", "SSP UUID format is invalid",
          "system-security-plan.uuid", Null, "")

ValidateSspStructure(ssp_data) ==
    IF ~HasGet(ssp_data) THEN Raise("AttributeError")
    ELSE
    LET ssp_root == Get(ssp_data, "system-security-plan", EmptyMap) IN
    IF ~CanContain(ssp_root) THEN Raise("TypeError")
    ELSE
    LET missing == SelectSeq(required_elements, LAMBDA e : ~Contains(e, ssp_root))
        issues == [i \in 1..Len(missing) |-> MissingElementIssue(missing[i])]
    IN  IF ~Contains("uuid", ssp_root) THEN Ok(issues)
        \* ssp_root["uuid"] on a list or a string
        ELSE IF ssp_root.t # "map" THEN Raise("TypeError")
        \* uuid_pattern.match on a value that is no string
        ELSE IF ssp_root.v["uuid"].t # "str" THEN Raise("TypeError")
        ELSE IF ~UuidPatternMatch(ssp_root.v["uuid"].v)
             THEN Ok(Append(issues, InvalidUuidIssue))
             ELSE Ok(issues)

(***************************************************************************)
(* 2. _validate_system_metadata                                            *)
(***************************************************************************)
MissingSystemNameIssue(baseline) ==
    Issue("error", "FEDRAMP_MISSING_SYSTEM_NAME",
          "System name (title) is required and must be at least 3 characters",
          "system-security-plan.metadata.title", baseline, "")

MissingSystemIdIssue(baseline) ==
    Issue("error", "FEDRAMP_MISSING_SYSTEM_ID", "System identifier is required",
          "system-security-plan.system-characteristics.system-id", baseline, "")

\* A variant that reports a missing version as an error.
MissingVersionIssue_AsError ==
    Issue("error", "FEDRAMP_MISSING_VERSION", "Document version should be specified",
          "system-security-plan.metadata.version", Null, "")

MissingVersionIssue ==
    Issue("warning", "FEDRAMP_MISSING_VERSION", "Document version should be specified",
          "system-security-plan.metadata.version", Null, "")

MissingLastModifiedIssue ==
    Issue("warning", "FEDRAMP_MISSING_LAST_MODIFIED",
          "Last modified timestamp should be specified",
          "system-security-plan.metadata.last-modified", Null, "")

\* The loop over required_metadata from index i on.
RECURSIVE RequiredMetadataLoop(_, _, _, _, _, _)
RequiredMetadataLoop(fields, i, metadata, system_chars, baseline, issues) ==
    IF i > Len(fields) THEN Ok(issues)
    ELSE IF fields[i] = "system_name" THEN
        IF ~HasGet(metadata) THEN Raise("AttributeError")
        ELSE LET title == Get(metadata, "title", Str("")) IN
             IF TextRaises(title) THEN Raise("AttributeError")
             ELSE RequiredMetadataLoop(fields, i + 1, metadata, system_chars, baseline,
                    IF ShortText(title, 3)
                    THEN Append(issues, MissingSystemNameIssue(baseline))
                    ELSE issues)
    ELSE IF fields[i] = "system_id" THEN
        IF ~HasGet(system_chars) THEN Raise("AttributeError")
        ELSE LET system_id == Get(system_chars, "system-id", Null) IN
             RequiredMetadataLoop(fields, i + 1, metadata, system_chars, baseline,
                    IF ~Truthy(system_id)
                    THEN Append(issues, MissingSystemIdIssue(baseline))
                    ELSE issues)
    ELSE RequiredMetadataLoop(fields, i + 1, metadata, system_chars, baseline, issues)

ValidateSystemMetadata(reg, ssp_data, baseline) ==
    IF ~HasGet(ssp_data) THEN Raise("AttributeError")
    ELSE
    LET ssp_root == Get(ssp_data, "system-security-plan", EmptyMap) IN
    IF ~HasGet(ssp_root) THEN Raise("AttributeError")
    ELSE
    LET metadata == Get(ssp_root, "metadata", EmptyMap)
        system_chars == Get(ssp_root, "system-characteristics", EmptyMap)
        required_metadata == BaselineReqs(reg, baseline).required_metadata
        looped == RequiredMetadataLoop(required_metadata, 1, metadata, system_chars,
                                       baseline, <<>>)
    IN  IF looped.exc # "" THEN looped
        ELSE IF ~CanContain(metadata) THEN Raise("TypeError")
        ELSE Ok(looped.issues
                \o (IF ~Contains("version", metadata)
                    THEN <<MissingVersionIssue>> ELSE <<>>)
                \o (IF ~Contains("last-modified", metadata)
                    THEN <<MissingLastModifiedIssue>> ELSE <<>>))

(***************************************************************************)
(* 3. _validate_control_implementation                                     *)
(***************************************************************************)
MissingStatementsIssue(control_id, baseline) ==
    Issue("error", "FEDRAMP_MISSING_CONTROL_STATEMENTS",
          "Control " \o Upper(control_id) \o " is missing implementation statements",
          "control-implementation.implemented-requirements[control-id='"
              \o control_id \o "'].statements",
          baseline, "")

MissingResponsibleRolesIssue(control_id, baseline) ==
    Issue("warning", "FEDRAMP_MISSING_RESPONSIBLE_ROLES",
          "Control " \o Upper(control_id) \o " should specify responsible roles",
          "control-implementation.implemented-requirements[control-id='"
              \o control_id \o "'].responsible-roles",
          baseline, "")

MissingRequiredControlIssue(missing_control, baseline) ==
    Issue("error", "FEDRAMP_MISSING_REQUIRED_CONTROL",
          "Required control " \o Upper(missing_control) \o " is not implemented",
          "control-implementation.implemented-requirements", baseline, "")

InsufficientControlsIssue(min_controls, found, baseline) ==
    Issue("error", "FEDRAMP_INSUFFICIENT_CONTROLS",
          "Insufficient controls implemented. Expected at least "
              \o ToString(min_controls) \o ", found " \o ToString(found),
          "control-implementation.implemented-requirements", baseline, "")

\* A variant that collects the control ids as written, without .lower().
RequirementStep_AsWritten(req, baseline) ==
    LET nothing == [exc |-> "", issues |-> <<>>, implemented |-> {}] IN
    IF ~HasGet(req) THEN [nothing EXCEPT !.exc = "AttributeError"]
    ELSE LET raw == Get(req, "control-id", Str("")) IN
    IF raw.t # "str" THEN [nothing EXCEPT !.exc = "AttributeError"]
    ELSE LET control_id == raw.v IN
    IF Len(control_id) = 0 THEN nothing
    ELSE LET statements == Get(req, "statements", EmptyList)
             responsible_roles == Get(req, "responsible-roles", EmptyList)
         IN  [exc |-> "",
              implemented |-> {control_id},
              issues |->
                 (IF ~Truthy(statements)
                  THEN <<MissingStatementsIssue(control_id, baseline)>>
                  ELSE <<>>)
                 \o (IF ~Truthy(responsible_roles)
                     THEN <<MissingResponsibleRolesIssue(control_id, baseline)>>
                     ELSE <<>>)]

\* One pass of the loop body of implemented_requirements: what the record
\* req adds to the issues and to the implemented_controls set, or the
\* exception it raises.
RequirementStep(req, baseline) ==
    LET nothing == [exc |-> "", issues |-> <<>>, implemented |-> {}] IN
    IF ~HasGet(req) THEN [nothing EXCEPT !.exc = "AttributeError"]
    ELSE LET raw == Get(req, "control-id", Str("")) IN
    \* .lower() on a value that is no string
    IF raw.t # "str" THEN [nothing EXCEPT !.exc = "AttributeError"]
    ELSE LET control_id == Lower(raw.v) IN
    IF Len(control_id) = 0 THEN nothing
    ELSE LET statements == Get(req, "statements", EmptyList)
             responsible_roles == Get(req, "responsible-roles", EmptyList)
         IN  [exc |-> "",
              implemented |-> {control_id},
              issues |->
                 (IF ~Truthy(statements)
                  THEN <<MissingStatementsIssue(control_id, baseline)>>
                  ELSE <<>>)
                 \o (IF ~Truthy(responsible_roles)
                     THEN <<MissingResponsibleRolesIssue(control_id, baseline)>>
                     ELSE <<>>)]

\* The loop over implemented_requirements for the records lo..hi, in order:
\* the first record that raises ends it; otherwise the issues are appended
\* record by record and the control ids collected.
RECURSIVE ImplementedRequirementsLoop(_, _, _, _)
ImplementedRequirementsLoop(reqs, lo, hi, baseline) ==
    IF lo > hi THEN [exc |-> "", issues |-> <<>>, implemented |-> {}]
    ELSE IF lo = hi THEN RequirementStep(reqs[lo], baseline)
    ELSE LET mid == (lo + hi) \div 2
             first == ImplementedRequirementsLoop(reqs, lo, mid, baseline)
         IN  IF first.exc # "" THEN first
             ELSE LET rest == ImplementedRequirementsLoop(reqs, mid + 1, hi, baseline)
                  IN  IF rest.exc # "" THEN rest
                      ELSE [exc |-> "",
                            issues |-> first.issues \o rest.issues,
                            implemented |-> first.implemented \cup rest.implemented]

\* The sequence s rotated left by k places.
Rotate(s, k) ==
    IF Len(s) = 0 THEN s
    ELSE LET r == k % Len(s) IN SubSeq(s, r + 1, Len(s)) \o SubSeq(s, 1, r)

\* The order in which "for x in <set of strings>" yields the members of a
\* set built from the list `from`.  The language leaves it to the string
\* hashes, which depend on the process's hash seed: the same set is walked
\* in the same order within a process and possibly in another order in
\* another process.  Each seed stands for one such order.
SetIterationOrder(from, members, seed) ==
    Rotate(SelectSeq(from, LAMBDA x : x \in members), seed)

ValidateControlImplementation(reg, seed, ssp_data, baseline) ==
    IF ~HasGet(ssp_data) THEN Raise("AttributeError")
    ELSE
    LET ssp_root == Get(ssp_data, "system-security-plan", EmptyMap) IN
    IF ~HasGet(ssp_root) THEN Raise("AttributeError")
    ELSE
    LET control_impl == Get(ssp_root, "control-implementation", EmptyMap) IN
    IF ~HasGet(control_impl) THEN Raise("AttributeError")
    ELSE
    LET implemented_requirements ==
            Get(control_impl, "implemented-requirements", EmptyList)
        baseline_reqs == BaselineReqs(reg, baseline)
        required_list == baseline_reqs.required_controls
        required_controls == {required_list[i] : i \in 1..Len(required_list)}
    IN
    IF ~Iterable(implemented_requirements) THEN Raise("TypeError")
    ELSE
    LET reqs == Elems(implemented_requirements)
        looped == ImplementedRequirementsLoop(reqs, 1, Len(reqs), baseline)
    IN
    IF looped.exc # "" THEN Raise(looped.exc)
    ELSE
    LET implemented_controls == looped.implemented
        missing_controls == required_controls \ implemented_controls
        order == SetIterationOrder(required_list, missing_controls, seed)
        min_controls == baseline_reqs.min_controls
        found == Cardinality(implemented_controls)
    IN
    \* baseline.title() on a baseline that is no string
    IF Len(order) > 0 /\ baseline.t # "str" THEN Raise("AttributeError")
    ELSE Ok(looped.issues
            \o [i \in 1..Len(order) |-> MissingRequiredControlIssue(order[i], baseline)]
            \o (IF found < min_controls
                THEN <<InsufficientControlsIssue(min_controls, found, baseline)>>
                ELSE <<>>))

(***************************************************************************)
(* 4. _validate_responsible_roles                                          *)
(***************************************************************************)
\* A variant that does not ask for the control assessor.
required_roles_WithoutAssessor ==
    <<"system-owner", "authorizing-official", "system-administrator",
      "information-system-security-manager">>

required_roles ==
    <<"system-owner", "authorizing-official", "system-administrator",
      "information-system-security-manager", "control-assessor">>

MissingRoleIssue(required_role) ==
    Issue("error", "FEDRAMP_MISSING_ROLE",
          "Required role '" \o required_role \o "' is not defined",
          "system-security-plan.metadata.roles", Null, "")

RoleWithoutPartyIssue(role_id) ==
    Issue("warning", "FEDRAMP_ROLE_WITHOUT_PARTY",
          "Role '" \o PyStr(role_id) \o "' has no assigned parties",
          "system-security-plan.metadata.responsible-parties", Null, "")

\* {role.get("id") for role in roles} from index i on; only the string ids
\* can equal a required role.  A list or dict id cannot be hashed.
RECURSIVE RoleIdsFrom(_, _, _)
RoleIdsFrom(roles, i, acc) ==
    IF i > Len(roles) THEN acc
    ELSE IF ~HasGet(roles[i]) THEN [acc EXCEPT !.exc = "AttributeError"]
    ELSE LET id == Get(roles[i], "id", Null) IN
         IF id.t \in {"list", "map"} THEN [acc EXCEPT !.exc = "TypeError"]
         ELSE RoleIdsFrom(roles, i + 1,
                IF id.t = "str" THEN [acc EXCEPT !.ids = @ \cup {id.v}] ELSE acc)

\* The loop over responsible_parties from index i on.
RECURSIVE ResponsiblePartiesLoop(_, _, _)
ResponsiblePartiesLoop(parties, i, issues) ==
    IF i > Len(parties) THEN Ok(issues)
    ELSE IF ~HasGet(parties[i]) THEN Raise("AttributeError")
    ELSE LET role_id == Get(parties[i], "role-id", Null)
             party_uuids == Get(parties[i], "party-uuids", EmptyList)
         IN  ResponsiblePartiesLoop(parties, i + 1,
                IF ~Truthy(party_uuids)
                THEN Append(issues, RoleWithoutPartyIssue(role_id))
                ELSE issues)

ValidateResponsibleRoles(ssp_data) ==
    IF ~HasGet(ssp_data) THEN Raise("AttributeError")
    ELSE
    LET ssp_root == Get(ssp_data, "system-security-plan", EmptyMap) IN
    IF ~HasGet(ssp_root) THEN Raise("AttributeError")
    ELSE
    LET metadata == Get(ssp_root, "metadata", EmptyMap) IN
    IF ~HasGet(metadata) THEN Raise("AttributeError")
    ELSE
    LET roles == Get(metadata, "roles", EmptyList) IN
    IF ~Iterable(roles) THEN Raise("TypeError")
    ELSE
    LET role_ids == RoleIdsFrom(Elems(roles), 1, [exc |-> "", ids |-> {}]) IN
    IF role_ids.exc # "" THEN Raise(role_ids.exc)
    ELSE
    LET absent == SelectSeq(required_roles, LAMBDA r : r \notin role_ids.ids)
        role_issues == [i \in 1..Len(absent) |-> MissingRoleIssue(absent[i])]
        responsible_parties == Get(metadata, "responsible-parties", EmptyList)
    IN
    IF ~Iterable(responsible_parties) THEN Raise("TypeError")
    ELSE ResponsiblePartiesLoop(Elems(responsible_parties), 1, role_issues)

(***************************************************************************)
(* 5. _validate_components                                                 *)
(***************************************************************************)
NoComponentsIssue ==
    Issue("error", "FEDRAMP_NO_COMPONENTS", "System must define at least one component",
          "system-security-plan.system-implementation.components", Null, "")

ComponentLocation(idx, field) ==
    "system-security-plan.system-implementation.components["
        \o ToString(idx) \o "]." \o field

ComponentMissingUuidIssue(idx) ==
    Issue("error", "FEDRAMP_COMPONENT_MISSING_UUID",
          "Component at index " \o ToString(idx) \o " is missing UUID",
          ComponentLocation(idx, "uuid"), Null, "")

ComponentMissingTypeIssue(idx, title) ==
    Issue("error", "FEDRAMP_COMPONENT_MISSING_TYPE",
          "Component '" \o PyStr(title) \o "' is missing type specification",
          ComponentLocation(idx, "type"), Null, "")

ComponentMissingTitleIssue(idx) ==
    Issue("error", "FEDRAMP_COMPONENT_MISSING_TITLE",
          "Component at index " \o ToString(idx)
              \o " needs a descriptive title (min 3 characters)",
          ComponentLocation(idx, "title"), Null, "")

\* The loop over enumerate(components) from position i on; idx = i - 1.
RECURSIVE ComponentsLoop(_, _, _)
ComponentsLoop(components, i, issues) ==
    IF i > Len(components) THEN Ok(issues)
    ELSE LET component == components[i]
             idx == i - 1
         IN
    IF ~HasGet(component) THEN Raise("AttributeError")
    ELSE LET component_uuid == Get(component, "uuid", Null)
             component_type == Get(component, "type", Null)
             title == Get(component, "title", Str(""))
         IN
    IF TextRaises(title) THEN Raise("AttributeError")
    ELSE ComponentsLoop(components, i + 1,
            issues
            \o (IF ~Truthy(component_uuid)
                THEN <<ComponentMissingUuidIssue(idx)>> ELSE <<>>)
            \o (IF ~Truthy(component_type)
                THEN <<ComponentMissingTypeIssue(idx, title)>> ELSE <<>>)
            \o (IF ShortText(title, 3)
                THEN <<ComponentMissingTitleIssue(idx)>> ELSE <<>>))

ValidateComponents(ssp_data) ==
    IF ~HasGet(ssp_data) THEN Raise("AttributeError")
    ELSE
    LET ssp_root == Get(ssp_data, "system-security-plan", EmptyMap) IN
    IF ~HasGet(ssp_root) THEN Raise("AttributeError")
    ELSE
    LET system_impl == Get(ssp_root, "system-implementation", EmptyMap) IN
    IF ~HasGet(system_impl) THEN Raise("AttributeError")
    ELSE
    LET components == Get(system_impl, "components", EmptyList) IN
    IF ~Truthy(components) THEN Ok(<<NoComponentsIssue>>)
    \* enumerate() of a number or of True
    ELSE IF ~Iterable(components) THEN Raise("TypeError")
    ELSE ComponentsLoop(Elems(components), 1, <<>>)

(***************************************************************************)
(* 6. _validate_authorization_boundary                                     *)
(***************************************************************************)
MissingAuthBoundaryIssue ==
    Issue("error", "FEDRAMP_MISSING_AUTH_BOUNDARY",
          "Authorization boundary description is required",
          "system-security-plan.system-characteristics.authorization-boundary",
          Null, "")

\* A variant that reports a boundary with a short description as missing.
InsufficientAuthBoundaryIssue_AsMissing ==
    Issue("error", "FEDRAMP_MISSING_AUTH_BOUNDARY",
          "Authorization boundary description is required",
          "system-security-plan.system-characteristics.authorization-boundary",
          Null, "")

InsufficientAuthBoundaryIssue ==
    Issue("warning", "FEDRAMP_INSUFFICIENT_AUTH_BOUNDARY",
          "Authorization boundary description should be more detailed (min 50 characters)",
          "system-security-plan.system-characteristics.authorization-boundary.description",
          Null, "")

MissingNetworkArchIssue ==
    Issue("warning", "FEDRAMP_MISSING_NETWORK_ARCH",
          "Network architecture documentation is recommended",
          "system-security-plan.system-characteristics.network-architecture",
          Null, "")

ValidateAuthorizationBoundary(ssp_data) ==
    IF ~HasGet(ssp_data) THEN Raise("AttributeError")
    ELSE
    LET ssp_root == Get(ssp_data, "system-security-plan", EmptyMap) IN
    IF ~HasGet(ssp_root) THEN Raise("AttributeError")
    ELSE
    LET system_chars == Get(ssp_root, "system-characteristics", EmptyMap) IN
    IF ~HasGet(system_chars) THEN Raise("AttributeError")
    ELSE
    LET auth_boundary == Get(system_chars, "authorization-boundary", Null)
        network_arch == Get(system_chars, "network-architecture", Null)
        network_issues ==
            IF ~Truthy(network_arch) THEN <<MissingNetworkArchIssue>> ELSE <<>>
    IN
    IF ~Truthy(auth_boundary) THEN Ok(<<MissingAuthBoundaryIssue>> \o network_issues)
    ELSE IF ~HasGet(auth_boundary) THEN Raise("AttributeError")
    ELSE LET description == Get(auth_boundary, "description", Str("")) IN
         IF TextRaises(description) THEN Raise("AttributeError")
         ELSE Ok((IF ShortText(description, 50)
                  THEN <<InsufficientAuthBoundaryIssue>> ELSE <<>>)
                 \o network_issues)

(***************************************************************************)
(* 7. _validate_data_flows                                                 *)
(***************************************************************************)
MissingDataFlowIssue(baseline) ==
    LET high == baseline.t = "str" /\ baseline.v = "high" IN
    Issue(IF high THEN "error" ELSE "warning",
          "FEDRAMP_MISSING_DATA_FLOW",
          "Data flow documentation is " \o (IF high THEN "required" ELSE "recommended")
              \o " for " \o Title(baseline.v) \o " baseline",
          "system-security-plan.system-characteristics.data-flow", baseline, "")

\* A variant without the exemption of the low baseline.
ValidateDataFlows_NoLowExemption(ssp_data, baseline) ==
    IF ~HasGet(ssp_data) THEN Raise("AttributeError")
    ELSE
    LET ssp_root == Get(ssp_data, "system-security-plan", EmptyMap) IN
    IF ~HasGet(ssp_root) THEN Raise("AttributeError")
    ELSE
    LET system_chars == Get(ssp_root, "system-characteristics", EmptyMap) IN
    IF ~HasGet(system_chars) THEN Raise("AttributeError")
    ELSE
    LET data_flow == Get(system_chars, "data-flow", Null) IN
    IF Truthy(data_flow) THEN Ok(<<>>)
    ELSE IF baseline.t # "str" THEN Raise("AttributeError")
    ELSE Ok(<<MissingDataFlowIssue(baseline)>>)

ValidateDataFlows(ssp_data, baseline) ==
    IF baseline.t = "str" /\ baseline.v = "low" THEN Ok(<<>>)
    ELSE IF ~HasGet(ssp_data) THEN Raise("AttributeError")
    ELSE
    LET ssp_root == Get(ssp_data, "system-security-plan", EmptyMap) IN
    IF ~HasGet(ssp_root) THEN Raise("AttributeError")
    ELSE
    LET system_chars == Get(ssp_root, "system-characteristics", EmptyMap) IN
    IF ~HasGet(system_chars) THEN Raise("AttributeError")
    ELSE
    LET data_flow == Get(system_chars, "data-flow", Null) IN
    IF Truthy(data_flow) THEN Ok(<<>>)
    \* baseline.title() on a baseline that is no string
    ELSE IF baseline.t # "str" THEN Raise("AttributeError")
    ELSE Ok(<<MissingDataFlowIssue(baseline)>>)

(***************************************************************************)
(* 8. _validate_required_artifacts                                         *)
(***************************************************************************)
\* A variant that reports a missing artifact as an error.
MissingArtifactIssue_AsError(artifact, baseline) ==
    Issue("error", "FEDRAMP_MISSING_ARTIFACT",
          "Required artifact '" \o artifact \o "' not found in back-matter resources",
          "system-security-plan.back-matter.resources", baseline, "")

MissingArtifactIssue(artifact, baseline) ==
    Issue("warning", "FEDRAMP_MISSING_ARTIFACT",
          "Required artifact '" \o artifact \o "' not found in back-matter resources",
          "system-security-plan.back-matter.resources", baseline, "")

\* The loop over a resource's props from index i on; acc carries the
\* resource_types set.
RECURSIVE PropsLoop(_, _, _)
PropsLoop(props, i, acc) ==
    IF i > Len(props) THEN acc
    ELSE IF ~HasGet(props[i]) THEN [acc EXCEPT !.exc = "AttributeError"]
    ELSE LET name == Get(props[i], "name", Null) IN
         IF ~(name.t = "str" /\ name.v = "document-type")
         THEN PropsLoop(props, i + 1, acc)
         ELSE LET value == Get(props[i], "value", Str("")) IN
              IF value.t # "str" THEN [acc EXCEPT !.exc = "AttributeError"]
              ELSE PropsLoop(props, i + 1,
                             [acc EXCEPT !.types = @ \cup {Lower(value.v)}])

\* The loop over resources from index i on.
RECURSIVE ResourcesLoop(_, _, _)
ResourcesLoop(resources, i, acc) ==
    IF i > Len(resources) \/ acc.exc # "" THEN acc
    ELSE IF ~HasGet(resources[i]) THEN [acc EXCEPT !.exc = "AttributeError"]
    ELSE LET title == Get(resources[i], "title", Str("")) IN
         IF title.t # "str" THEN [acc EXCEPT !.exc = "AttributeError"]
         ELSE LET props == Get(resources[i], "props", EmptyList) IN
              IF ~Iterable(props) THEN [acc EXCEPT !.exc = "TypeError"]
              ELSE ResourcesLoop(resources, i + 1,
                      PropsLoop(Elems(props), 1,
                                [acc EXCEPT !.types = @ \cup {Lower(title.v)}]))

ValidateRequiredArtifacts(ssp_data, baseline) ==
    IF ~HasGet(ssp_data) THEN Raise("AttributeError")
    ELSE
    LET ssp_root == Get(ssp_data, "system-security-plan", EmptyMap) IN
    IF ~HasGet(ssp_root) THEN Raise("AttributeError")
    ELSE
    LET back_matter == Get(ssp_root, "back-matter", EmptyMap) IN
    IF ~HasGet(back_matter) THEN Raise("AttributeError")
    ELSE
    LET resources == Get(back_matter, "resources", EmptyList)
        baseline_artifacts == RequiredArtifacts(baseline)
    IN
    IF ~Iterable(resources) THEN Raise("TypeError")
    ELSE
    LET looped == ResourcesLoop(Elems(resources), 1, [exc |-> "", types |-> {}]) IN
    IF looped.exc # "" THEN Raise(looped.exc)
    ELSE
    LET resource_types == looped.types
        lacking == SelectSeq(baseline_artifacts,
                      LAMBDA artifact :
                         ~\E resource_type \in resource_types :
                             Substring(Lower(artifact), resource_type))
    IN  Ok([i \in 1..Len(lacking) |-> MissingArtifactIssue(lacking[i], baseline)])

(***************************************************************************)
(* validate_ssp: the orchestrator.                                         *)
(***************************************************************************)
NumCheckers == 8

\* A variant that calls the component checker before the roles checker.
RunChecker_ComponentsFirst(k, reg, seed, ssp_data, baseline) ==
    CASE k = 1 -> ValidateSspStructure(ssp_data)
      [] k = 2 -> ValidateSystemMetadata(reg, ssp_data, baseline)
      [] k = 3 -> ValidateControlImplementation(reg, seed, ssp_data, baseline)
      [] k = 4 -> ValidateComponents(ssp_data)
      [] k = 5 -> ValidateResponsibleRoles(ssp_data)
      [] k = 6 -> ValidateAuthorizationBoundary(ssp_data)
      [] k = 7 -> ValidateDataFlows(ssp_data, baseline)
      [] k = 8 -> ValidateRequiredArtifacts(ssp_data, baseline)

\* The checker calls of validate_ssp in their order.
RunChecker(k, reg, seed, ssp_data, baseline) ==
    CASE k = 1 -> ValidateSspStructure(ssp_data)
      [] k = 2 -> ValidateSystemMetadata(reg, ssp_data, baseline)
      [] k = 3 -> ValidateControlImplementation(reg, seed, ssp_data, baseline)
      [] k = 4 -> ValidateResponsibleRoles(ssp_data)
      [] k = 5 -> ValidateComponents(ssp_data)
      [] k = 6 -> ValidateAuthorizationBoundary(ssp_data)
      [] k = 7 -> ValidateDataFlows(ssp_data, baseline)
      [] k = 8 -> ValidateRequiredArtifacts(ssp_data, baseline)

\* A variant whose try block opens after the structural checker.
InTry_AfterStructure(k) == k \in 2..NumCheckers

\* The checker calls that stand inside the try block.
InTry(k) == k \in 1..NumCheckers

ValidationErrorIssue(exc) ==
    Issue("error", "FEDRAMP_VALIDATION_ERROR", "Validation process failed: " \o exc,
          "", Null, exc)

CountSeverity(issues, severity) ==
    Cardinality({i \in 1..Len(issues) : issues[i].severity = severity})

\* A variant that tolerates one error.
IsCompliant_AllowsOneError(issues) == CountSeverity(issues, "error") <= 1

\* is_compliant = len([i for i in issues if i.severity == "error"]) == 0
IsCompliant(issues) == CountSeverity(issues, "error") = 0

\* The FedRAMPValidationResult that validate_ssp builds.  The elapsed time
\* and the timestamp are left out.
SspResult(issues, baseline) ==
    [is_compliant |-> IsCompliant(issues),
     baseline |-> baseline,
     document_type |-> "system-security-plan",
     issues |-> issues,
     metadata |-> [total_issues |-> Len(issues),
                   error_count |-> CountSeverity(issues, "error"),
                   warning_count |-> CountSeverity(issues, "warning")]]

\* No validate_ssp call is in progress.
SspIdle ==
    [pc |-> "idle", k |-> 0, caller |-> "", ssp_data |-> Null, baseline |-> Null,
     issues |-> <<>>, ran |-> {}, failed |-> 0, result |-> <<>>]

\* validate_ssp up to its first checker call.
SspEnter(caller, ssp_data, baseline) ==
    [SspIdle EXCEPT !.pc = "running", !.k = 1, !.caller = caller,
                    !.ssp_data = ssp_data, !.baseline = baseline]

\* A variant whose except clause starts the issue list afresh.
SspStep_DropsEarlierIssues(f, reg, seed) ==
    LET r == RunChecker(f.k, reg, seed, f.ssp_data, f.baseline) IN
    IF r.exc = ""
    THEN LET issues == f.issues \o r.issues IN
         IF f.k < NumCheckers
         THEN [f EXCEPT !.k = @ + 1, !.issues = issues, !.ran = @ \cup {f.k}]
         ELSE [f EXCEPT !.pc = "returned", !.issues = <<>>, !.ran = @ \cup {f.k},
                        !.result = <<SspResult(issues, f.baseline)>>]
    ELSE LET issues == <<ValidationErrorIssue(r.exc)>> IN
         [f EXCEPT !.pc = "returned", !.issues = <<>>, !.failed = f.k,
                   !.result = <<SspResult(issues, f.baseline)>>]

\* A variant whose last checker empties the document it was handed.
SspStep_ConsumesDocument(f, reg, seed) ==
    LET r == RunChecker(f.k, reg, seed, f.ssp_data, f.baseline) IN
    IF r.exc = ""
    THEN LET issues == f.issues \o r.issues IN
         IF f.k < NumCheckers
         THEN [f EXCEPT !.k = @ + 1, !.issues = issues, !.ran = @ \cup {f.k}]
         ELSE [f EXCEPT !.pc = "returned", !.issues = <<>>, !.ran = @ \cup {f.k},
                        !.ssp_data = EmptyMap,
                        !.result = <<SspResult(issues, f.baseline)>>]
    ELSE LET issues == Append(f.issues, ValidationErrorIssue(r.exc)) IN
         [f EXCEPT !.pc = "returned", !.issues = <<>>, !.failed = f.k,
                   !.result = <<SspResult(issues, f.baseline)>>]

\* validate_ssp from the call of checker f.k to the next checker call, or
\* to the return when the checker is the last one or raises.
SspStep(f, reg, seed) ==
    LET r == RunChecker(f.k, reg, seed, f.ssp_data, f.baseline) IN
    IF r.exc = ""
    THEN LET issues == f.issues \o r.issues IN
         IF f.k < NumCheckers
         THEN [f EXCEPT !.k = @ + 1, !.issues = issues, !.ran = @ \cup {f.k}]
         ELSE [f EXCEPT !.pc = "returned", !.issues = <<>>, !.ran = @ \cup {f.k},
                        !.result = <<SspResult(issues, f.baseline)>>]
    ELSE IF InTry(f.k)
    THEN LET issues == Append(f.issues, ValidationErrorIssue(r.exc)) IN
         [f EXCEPT !.pc = "returned", !.issues = <<>>, !.failed = f.k,
                   !.result = <<SspResult(issues, f.baseline)>>]
    ELSE [f EXCEPT !.pc = "raised", !.issues = <<>>, !.failed = f.k]

\* validate_ssp from frame f to its end.
RECURSIVE SspRun(_, _, _)
SspRun(f, reg, seed) ==
    IF f.pc = "running" THEN SspRun(SspStep(f, reg, seed), reg, seed) ELSE f

\* validate_ssp(ssp_data, baseline) run alone, from its call to its return,
\* in a process whose hash seed is `seed`.
ValidateSsp(reg, seed, ssp_data, baseline) ==
    SspRun(SspEnter("direct", ssp_data, baseline), reg, seed)

(***************************************************************************)
(* validate_document: the loader and type router.                          *)
(***************************************************************************)
\* The position of the last occurrence of character c in s, 0 when absent.
LastIndexOf(c, s) ==
    LET at == {i \in 1..Len(s) : SubSeq(s, i, i) = c}
    IN  IF at = {} THEN 0 ELSE CHOOSE i \in at : \A j \in at : j <= i

\* Path(file_path).suffix: the last dot of the final path component and what
\* follows it; "" when the name has no dot past its first character.
PathSuffix(file_path) ==
    LET name == SubSeq(file_path, LastIndexOf("/", file_path) + 1, Len(file_path))
        dot == LastIndexOf(".", name)
    IN  IF dot <= 1 \/ dot = Len(name) THEN "" ELSE SubSeq(name, dot, Len(name))

\* A variant that looks for a profile before it looks for a catalog.
DetectDocumentType_ProfileFirst(document_data) ==
    IF Contains("system-security-plan", document_data) THEN "system-security-plan"
    ELSE IF Contains("profile", document_data) THEN "profile"
    ELSE IF Contains("catalog", document_data) THEN "catalog"
    ELSE IF Contains("component-definition", document_data) THEN "component-definition"
    ELSE IF Contains("assessment-plan", document_data) THEN "assessment-plan"
    ELSE IF Contains("assessment-results", document_data) THEN "assessment-results"
    ELSE IF Contains("plan-of-action-and-milestones", document_data)
         THEN "plan-of-action-and-milestones"
    ELSE "unknown"

\* _detect_document_type, for a document_data that supports "in".
DetectDocumentType(document_data) ==
    IF Contains("system-security-plan", document_data) THEN "system-security-plan"
    ELSE IF Contains("catalog", document_data) THEN "catalog"
    ELSE IF Contains("profile", document_data) THEN "profile"
    ELSE IF Contains("component-definition", document_data) THEN "component-definition"
    ELSE IF Contains("assessment-plan", document_data) THEN "assessment-plan"
    ELSE IF Contains("assessment-results", document_data) THEN "assessment-results"
    ELSE IF Contains("plan-of-action-and-milestones", document_data)
         THEN "plan-of-action-and-milestones"
    ELSE "unknown"

\* A variant that holds a document of another type to be non-compliant.
UnsupportedDocumentResult_NonCompliant(baseline, document_type) ==
    [is_compliant |-> FALSE,
     baseline |-> baseline,
     document_type |-> document_type,
     issues |-> <<Issue("error", "FEDRAMP_UNSUPPORTED_DOCUMENT",
                        "FedRAMP validation not yet implemented for " \o document_type
                            \o " documents",
                        "", Null, "")>>,
     metadata |-> [note |-> "Basic validation passed"]]

\* The result of the else branch: a document that is no system security plan.
UnsupportedDocumentResult(baseline, document_type) ==
    [is_compliant |-> TRUE,
     baseline |-> baseline,
     document_type |-> document_type,
     issues |-> <<Issue("info", "FEDRAMP_UNSUPPORTED_DOCUMENT",
                        "FedRAMP validation not yet implemented for " \o document_type
                            \o " documents",
                        "", Null, "")>>,
     metadata |-> [note |-> "Basic validation passed"]]

\* A variant whose except clause reports the failure as a warning.
ValidationFailedResult_AsWarning(baseline, document_type, exc, text) ==
    [is_compliant |-> TRUE,
     baseline |-> baseline,
     document_type |-> IF Truthy(document_type) THEN PyStr(document_type) ELSE "unknown",
     issues |-> <<Issue("warning", "FEDRAMP_VALIDATION_FAILED",
                        "FedRAMP validation failed: " \o text, "", Null, exc)>>,
     metadata |-> <<>>]

\* The result the except clause builds; document_type is the local variable,
\* None until it is supplied or detected.
ValidationFailedResult(baseline, document_type, exc, text) ==
    [is_compliant |-> FALSE,
     baseline |-> baseline,
     document_type |-> IF Truthy(document_type) THEN PyStr(document_type) ELSE "unknown",
     issues |-> <<Issue("error", "FEDRAMP_VALIDATION_FAILED",
                        "FedRAMP validation failed: " \o text, "", Null, exc)>>,
     metadata |-> <<>>]

\* A variant that takes every file for JSON.
LoadDocument_EverySuffix(source) ==
    IF source.content = "none"
    THEN [exc |-> "FileNotFoundError", text |-> "No such file or directory",
          data |-> Null]
    ELSE IF source.content = "text"
    THEN [exc |-> "JSONDecodeError", text |-> "Expecting value", data |-> Null]
    ELSE [exc |-> "", text |-> "", data |-> source.tree]

\* What the try block's loading step gives: the decoded document or the
\* exception raised.  A source is a path and what the file system holds
\* there: nothing, text that is no JSON, or text that decodes to `tree`.
LoadDocument(source) ==
    IF Lower(PathSuffix(source.file_path)) = ".json"
    THEN IF source.content = "none"
         THEN [exc |-> "FileNotFoundError", text |-> "No such file or directory",
               data |-> Null]
         ELSE IF source.content = "text"
         THEN [exc |-> "JSONDecodeError", text |-> "Expecting value", data |-> Null]
         ELSE [exc |-> "", text |-> "", data |-> source.tree]
    ELSE [exc |-> "NotImplementedError", text |-> "XML parsing not yet implemented",
          data |-> Null]

\* No validate_document call is in progress.  `given` notes the
\* document_type argument as it was passed, `ran` the checkers that were
\* called on behalf of the call.
VdIdle ==
    [pc |-> "idle", source |-> [file_path |-> "", content |-> "none", tree |-> Null],
     baseline |-> Null, document_type |-> Null, given |-> Null, ran |-> {},
     result |-> <<>>]

\* A variant that runs the detector whether or not a type is supplied.
VdEnter_AlwaysDetects(source, baseline, document_type) ==
    LET loaded == LoadDocument(source)
        frame == [VdIdle EXCEPT !.source = source, !.baseline = baseline,
                                !.document_type = document_type,
                                !.given = document_type]
        detects == TRUE
        failed(dt, exc, text) ==
            [vd |-> [frame EXCEPT !.pc = "returned", !.document_type = dt,
                        !.result = <<ValidationFailedResult(baseline, dt, exc, text)>>],
             vs |-> SspIdle]
    IN  IF loaded.exc # ""
        THEN failed(document_type, loaded.exc, loaded.text)
        \* "in" on a decoded value that is None, a number or a boolean
        ELSE IF detects /\ ~CanContain(loaded.data)
        THEN failed(document_type, "TypeError", "argument is not iterable")
        ELSE LET dt == IF detects THEN Str(DetectDocumentType(loaded.data))
                       ELSE document_type
             IN  IF dt.v = "system-security-plan"
                 THEN [vd |-> [frame EXCEPT !.pc = "awaiting", !.document_type = dt],
                       vs |-> SspEnter("validate_document", loaded.data, baseline)]
                 ELSE [vd |-> [frame EXCEPT !.pc = "returned", !.document_type = dt,
                                  !.result = <<UnsupportedDocumentResult(baseline, dt.v)>>],
                       vs |-> SspIdle]

\* validate_document from its call to its return, or to the await of
\* validate_ssp: the frame of the call and the frame of validate_ssp, idle
\* when validate_ssp is not called.
VdEnter(source, baseline, document_type) ==
    LET loaded == LoadDocument(source)
        frame == [VdIdle EXCEPT !.source = source, !.baseline = baseline,
                                !.document_type = document_type,
                                !.given = document_type]
        detects == ~Truthy(document_type)
        failed(dt, exc, text) ==
            [vd |-> [frame EXCEPT !.pc = "returned", !.document_type = dt,
                        !.result = <<ValidationFailedResult(baseline, dt, exc, text)>>],
             vs |-> SspIdle]
    IN  IF loaded.exc # ""
        THEN failed(document_type, loaded.exc, loaded.text)
        \* "in" on a decoded value that is None, a number or a boolean
        ELSE IF detects /\ ~CanContain(loaded.data)
        THEN failed(document_type, "TypeError", "argument is not iterable")
        ELSE LET dt == IF detects THEN Str(DetectDocumentType(loaded.data))
                       ELSE document_type
             IN  IF dt.v = "system-security-plan"
                 THEN [vd |-> [frame EXCEPT !.pc = "awaiting", !.document_type = dt],
                       vs |-> SspEnter("validate_document", loaded.data, baseline)]
                 ELSE [vd |-> [frame EXCEPT !.pc = "returned", !.document_type = dt,
                                  !.result = <<UnsupportedDocumentResult(baseline, dt.v)>>],
                       vs |-> SspIdle]

\* validate_ssp hands its result, or its exception, back to validate_document.
VdResume(d, f) ==
    [d EXCEPT !.pc = "returned",
              !.ran = f.ran \cup ({f.failed} \ {0}),
              !.result = IF f.pc = "returned" THEN f.result
                         ELSE <<ValidationFailedResult(d.baseline, d.document_type,
                                   "Exception", "validate_ssp raised")>>]

\* validate_document(file_path, baseline, document_type) run alone, from its
\* call to its return: the frame it ends in.
ValidateDocument(reg, seed, source, baseline, document_type) ==
    LET entered == VdEnter(source, baseline, document_type)
    IN  IF entered.vd.pc = "returned" THEN entered.vd
        ELSE VdResume(entered.vd, SspRun(entered.vs, reg, seed))


(***************************************************************************)
(* Concurrent callers of validate_ssp on one validator instance.  A call   *)
(* keeps its accumulator `issues` and its arguments in its own frame; the  *)
(* callers share the instance, that is the registry.                       *)
(***************************************************************************)
Callers == 1..MaxCallers

\* A variant in which the accumulator is one list of the instance: what a
\* call appends shows in the list of every call in progress.
CallsStep_SharedIssues(cs, c, reg, seed) ==
    LET stepped == SspStep(cs[c], reg, seed) IN
    [o \in Callers |->
        IF o = c THEN stepped
        ELSE IF cs[o].pc = "running"
        THEN [cs[o] EXCEPT !.issues = cs[c].issues \o stepped.issues]
        ELSE cs[o]]

\* The call of caller c goes from one await of a checker to the next, or to
\* its return; the frames of the other callers stay as they are.
CallsStep(cs, c, reg, seed) == [cs EXCEPT ![c] = SspStep(cs[c], reg, seed)]

(***************************************************************************)
(* The HTTP layer: validate_fedramp_file and validate_fedramp_batch of     *)
(* endpoints/fedramp.py.  One request is followed from its call to its     *)
(* response; its handler gives way at its awaits of the database and of    *)
(* the upload.                                                             *)
(***************************************************************************)
\* len(files) > 20
BatchLimit == 20
\* asyncio.Semaphore(3)
Permits == 3
\* fedramp_result.issues[:10]
IssuesShown == 10

\* No request is being handled.  `semaphore` is the number of permits of
\* asyncio.Semaphore(3) that are free; `overtaken` notes that the validation
\* of some file of a batch ended before that of an earlier file.
RequestIdle ==
    [pc |-> "idle", endpoint |-> "", files |-> <<>>, baseline |-> Null,
     document_type |-> Null, patched |-> FALSE, tasks |-> <<>>,
     semaphore |-> Permits,
     compliant_count |-> 0, overtaken |-> FALSE, result |-> <<>>, raised |-> "",
     status |-> 0, response |-> <<>>]

\* Operation(...) followed by mark_started().
NewOperation(parent) == [parent_operation_id |-> parent, status |-> "running"]

\* Path(f"/tmp/fedramp_{operation.id}_{file.filename}") and what
\* write_bytes(content) leaves there: the upload's bytes, or nothing when
\* the file name leads into a directory that does not exist.
TempFile(prefix, file) ==
    LET written == LastIndexOf("/", file.filename) = 0
    IN  [file_path |-> prefix \o "0f8fad5b_" \o file.filename,
         content |-> IF written THEN file.content ELSE "none",
         tree |-> IF written THEN file.tree ELSE Null,
         written |-> written]

\* response_data of validate_fedramp_file for the result the service returned.
FileResponseData(operation_id, result) ==
    [operation_id |-> operation_id,
     is_compliant |-> result.is_compliant,
     baseline |-> result.baseline,
     document_type |-> result.document_type,
     validation_summary |->
         [total_issues |-> Len(result.issues),
          errors |-> CountSeverity(result.issues, "error"),
          warnings |-> CountSeverity(result.issues, "warning")],
     issues |-> [i \in 1..Len(result.issues) |->
                    [severity |-> result.issues[i].severity,
                     code |-> result.issues[i].code,
                     message |-> result.issues[i].message,
                     location |-> result.issues[i].location,
                     baseline |-> result.issues[i].baseline,
                     context |-> result.issues[i].context]],
     metadata |-> result.metadata]

\* A variant that answers 200 whenever the service returned a result.
FileStatusCode_AlwaysOk(result) == 200

\* 200 if fedramp_result.is_compliant else 400
FileStatusCode(result) == IF result.is_compliant THEN 200 ELSE 400

\* What validate_single_file returns for a file whose validation returned.
BatchEntry(operation_id, file, result) ==
    LET shown == IF Len(result.issues) < IssuesShown THEN Len(result.issues)
                 ELSE IssuesShown
    IN  [operation_id |-> operation_id,
         filename |-> file.filename,
         is_compliant |-> result.is_compliant,
         document_type |-> result.document_type,
         summary |-> [errors |-> CountSeverity(result.issues, "error"),
                      warnings |-> CountSeverity(result.issues, "warning"),
                      total_issues |-> Len(result.issues)],
         issues |-> [i \in 1..shown |->
                        [severity |-> result.issues[i].severity,
                         code |-> result.issues[i].code,
                         message |-> result.issues[i].message,
                         location |-> result.issues[i].location]],
         truncated_issues |-> Len(result.issues) > IssuesShown]

\* A variant that reports a file whose validation raised as compliant.
BatchErrorEntry_AsCompliant(operation_id, file, error) ==
    [operation_id |-> operation_id, filename |-> file.filename,
     is_compliant |-> TRUE, error |-> error]

\* What validate_single_file returns for a file whose validation raised.
BatchErrorEntry(operation_id, file, error) ==
    [operation_id |-> operation_id, filename |-> file.filename,
     is_compliant |-> FALSE, error |-> error]

\* A variant that lets through one file more.
BatchTooLarge_OneMore(files) == Len(files) > BatchLimit + 1

\* len(files) > 20
BatchTooLarge(files) == Len(files) > BatchLimit
(***************************************************************************)
(* The documents the calls are given.  A document is put together from one *)
(* variant per section; variant 1 of a section leaves it out and variant 2 *)
(* is a well-formed one.                                                   *)
(***************************************************************************)
GoodUuid == "12345678-1234-1234-1234-123456789abc"

LongText ==
    "The boundary covers the web tier, the database tier and the admin network."

Role(id) == MkMap(<< <<"id", Str(id)>>, <<"title", Str("A role")>> >>)

UuidVariants ==
    << Absent,
       Str(GoodUuid),
       Str("not-a-uuid"),
       Str("12345678-1234-1234-1234-123456789ABC"),
       Str(GoodUuid \o "\n"),
       Num(7) >>

MetadataVariants ==
    << Absent,
       MkMap(<< <<"title", Str("Test System")>>,
                <<"version", Str("1.0")>>,
                <<"last-modified", Str("2024-01-01T00:00:00Z")>>,
                <<"roles", List([i \in 1..Len(required_roles) |-> Role(required_roles[i])])>>,
                <<"responsible-parties",
                  List(<< MkMap(<< <<"role-id", Str("system-owner")>>,
                                   <<"party-uuids", List(<<Str(GoodUuid)>>)>> >>) >>)>> >>),
       MkMap(<< <<"title", Str("X")>> >>),
       MkMap(<< <<"title", Str("  ab \n")>>,
                <<"version", Str("1.0")>>,
                <<"roles", List(<< Role("system-owner"), Role("control-assessor"),
                                   MkMap(<< <<"title", Str("No id")>> >>),
                                   MkMap(<< <<"id", Null>> >>) >>)>>,
                <<"responsible-parties",
                  List(<< MkMap(<< <<"role-id", Str("system-owner")>>,
                                   <<"party-uuids", EmptyList>> >>),
                          MkMap(<< <<"party-uuids", List(<<Str(GoodUuid)>>)>> >>),
                          MkMap(<< <<"role-id", Str("control-assessor")>> >>) >>)>> >>),
       Null,
       MkMap(<< <<"title", Num(5)>>,
                <<"last-modified", Null>>,
                <<"roles", Null>> >>),
       Str("version 2, last-modified today") >>

SystemCharacteristicsVariants ==
    << Absent,
       MkMap(<< <<"system-id", Str("sys-1")>>,
                <<"authorization-boundary", MkMap(<< <<"description", Str(LongText)>> >>)>>,
                <<"network-architecture", MkMap(<< <<"description", Str(LongText)>> >>)>>,
                <<"data-flow", MkMap(<< <<"description", Str(LongText)>> >>)>> >>),
       MkMap(<< <<"system-id", Str("")>>,
                <<"authorization-boundary", EmptyMap>>,
                <<"network-architecture", Str("")>>,
                <<"data-flow", EmptyMap>> >>),
       MkMap(<< <<"system-id", Str("sys-1")>>,
                <<"authorization-boundary", MkMap(<< <<"description", Str("  The web tier.  ")>> >>)>>,
                <<"network-architecture", MkMap(<< <<"description", Str(LongText)>> >>)>> >>),
       MkMap(<< <<"authorization-boundary", MkMap(<< <<"remarks", Str("see diagram")>> >>)>>,
                <<"data-flow", Null>> >>),
       Str("n/a"),
       MkMap(<< <<"system-id", Num(12)>>,
                <<"authorization-boundary", Str(LongText)>>,
                <<"data-flow", Str("see the attached diagram")>> >>) >>

Component(uuid, type, title) ==
    MkMap(<< <<"uuid", uuid>>, <<"type", type>>, <<"title", title>> >>)

SystemImplementationVariants ==
    << Absent,
       MkMap(<< <<"components",
                  List(<< Component(Str(GoodUuid), Str("software"), Str("Web Server")) >>)>> >>),
       MkMap(<< <<"components", EmptyList>> >>),
       MkMap(<< <<"components",
                  List(<< Component(Str(""), Absent, Str(" ab ")),
                          Component(Str(GoodUuid), Str("software"), Str("Database")),
                          Component(Absent, Str(""), Str("abc")),
                          Component(Null, Str("service"), Absent) >>)>> >>),
       MkMap(<< <<"components", Null>> >>),
       MkMap(<< <<"components", Num(3)>> >>),
       MkMap(<< <<"components",
                  List(<< Component(Str(GoodUuid), Str("software"), Num(5)) >>)>> >>) >>

Requirement(control_id, statements, responsible_roles) ==
    MkMap(<< <<"control-id", control_id>>,
             <<"statements", statements>>,
             <<"responsible-roles", responsible_roles>> >>)

SomeStatements == List(<< MkMap(<< <<"statement-id", Str("s1")>> >>) >>)
SomeRoles == List(<< MkMap(<< <<"role-id", Str("system-owner")>> >>) >>)

\* One well-formed record per control of the list, for the controls at the
\* indices lo..hi.
RECURSIVE RequirementsFrom(_, _, _)
RequirementsFrom(controls, lo, hi) ==
    IF lo > hi THEN <<>>
    ELSE IF lo = hi THEN <<Requirement(Str(controls[lo]), SomeStatements, SomeRoles)>>
    ELSE LET mid == (lo + hi) \div 2
         IN  RequirementsFrom(controls, lo, mid) \o RequirementsFrom(controls, mid + 1, hi)

RequirementsFor(controls) == List(RequirementsFrom(controls, 1, Len(controls)))

ControlImplementationVariants ==
    << Absent,
       MkMap(<< <<"implemented-requirements",
                  RequirementsFor(<<"ac-1", "ac-2", "au-2">>)>> >>),
       MkMap(<< <<"implemented-requirements", RequirementsFor(LowRequiredControls)>> >>),
       MkMap(<< <<"implemented-requirements",
                  List(<< Requirement(Str("AC-1"), Absent, Absent),
                          Requirement(Str("ac-1"), SomeStatements, EmptyList),
                          Requirement(Str(""), Absent, Absent),
                          Requirement(Absent, EmptyList, SomeRoles),
                          Requirement(Str("Zz-9"), SomeStatements, SomeRoles),
                          Requirement(Str("AC-2"), EmptyList, SomeRoles) >>)>> >>),
       MkMap(<< <<"implemented-requirements", RequirementsFor(ModerateRequiredControls)>> >>),
       MkMap(<< <<"implemented-requirements",
                  RequirementsFor(Tail(ModerateRequiredControls))>> >>),
       MkMap(<< <<"implemented-requirements",
                  List(<< Requirement(Num(7), SomeStatements, SomeRoles) >>)>> >>),
       MkMap(<< <<"implemented-requirements", Null>> >>) >>

Resource(title, props) == MkMap(<< <<"title", title>>, <<"props", props>> >>)

Prop(name, value) == MkMap(<< <<"name", Str(name)>>, <<"value", value>> >>)

BackMatterVariants ==
    << Absent,
       MkMap(<< <<"resources",
                  List(<< Resource(Str("FedRAMP System-Security-Plan, Rules-of-Behavior"), Absent),
                          Resource(Str("Privacy-Impact-Assessment and Contingency-Plan"), Absent),
                          Resource(Absent,
                             List(<< Prop("document-type", Str("Configuration-Management-Plan")),
                                     Prop("document-type", Str("incident-response-plan")),
                                     Prop("marking", Num(1)) >>)),
                          Resource(Str("system-security-architecture; penetration-test-results"),
                                   EmptyList) >>)>> >>),
       MkMap(<< <<"resources",
                  List(<< Resource(Str("Rules-Of-Behavior (signed)"), Absent),
                          Resource(Str("Contingency plan"),
                             List(<< Prop("document-type", Str("contingency-plan")),
                                     Prop("title", Str("system-security-plan")) >>)) >>)>> >>),
       MkMap(<< <<"resources", List(<< Resource(Num(3), Absent) >>)>> >>),
       MkMap(<< <<"resources", Null>> >>),
       MkMap(<< <<"resources",
                  List(<< Resource(Str("Plan"),
                             List(<< Prop("document-type", Null) >>)) >>)>> >>) >>

Sections == {"uuid", "metadata", "sc", "si", "ci", "bm", "wrap"}

\* The shapes of the top level.
TopLevelShapes ==
    << "plan",                  \* {"system-security-plan": root}
       "plan-with-nested-key",  \* the root also holds a key system-security-plan
       "profile-and-catalog",   \* no system-security-plan key
       "null-root",             \* {"system-security-plan": null}
       "list-root",             \* {"system-security-plan": []}
       "list-top",              \* [{"system-security-plan": root}]
       "plan-and-catalog",      \* {"system-security-plan": root, "catalog": {}}
       "later-types",           \* component-definition and the three types after it
       "no-known-key",          \* the root itself as the top level
       "null-top" >>            \* null

NumVariants ==
    [uuid |-> Len(UuidVariants), metadata |-> Len(MetadataVariants),
     sc |-> Len(SystemCharacteristicsVariants),
     si |-> Len(SystemImplementationVariants),
     ci |-> Len(ControlImplementationVariants), bm |-> Len(BackMatterVariants),
     wrap |-> Len(TopLevelShapes)]

MostVariants == CHOOSE n \in {NumVariants[s] : s \in Sections} :
                    \A s \in Sections : NumVariants[s] <= n

\* The document a selection of variants stands for.
Doc(sel) ==
    LET shape == TopLevelShapes[sel.wrap]
        nested == IF shape = "plan-with-nested-key" THEN Str("1.1.3") ELSE Absent
        root == MkMap(<< <<"uuid", UuidVariants[sel.uuid]>>,
                         <<"metadata", MetadataVariants[sel.metadata]>>,
                         <<"system-characteristics", SystemCharacteristicsVariants[sel.sc]>>,
                         <<"system-implementation", SystemImplementationVariants[sel.si]>>,
                         <<"control-implementation", ControlImplementationVariants[sel.ci]>>,
                         <<"back-matter", BackMatterVariants[sel.bm]>>,
                         <<"system-security-plan", nested>> >>)
    IN  CASE shape \in {"plan", "plan-with-nested-key"} ->
                MkMap(<< <<"system-security-plan", root>> >>)
          [] shape = "profile-and-catalog" ->
                MkMap(<< <<"profile", root>>, <<"catalog", EmptyMap>> >>)
          [] shape = "null-root" -> MkMap(<< <<"system-security-plan", Null>> >>)
          [] shape = "list-root" -> MkMap(<< <<"system-security-plan", EmptyList>> >>)
          [] shape = "list-top" -> List(<< MkMap(<< <<"system-security-plan", root>> >>) >>)
          [] shape = "plan-and-catalog" ->
                MkMap(<< <<"system-security-plan", root>>, <<"catalog", EmptyMap>> >>)
          [] shape = "later-types" ->
                MkMap(<< <<"plan-of-action-and-milestones", EmptyMap>>,
                         <<"assessment-results", EmptyMap>>,
                         <<"assessment-plan", EmptyMap>>,
                         <<"component-definition", root>> >>)
          [] shape = "no-known-key" -> root
          [] shape = "null-top" -> Null

\* The plan without any section, the plan with a well-formed variant of
\* every section, and the latter with every control of the low baseline
\* implemented and with the nested key.
EmptyPlan == [s \in Sections |-> 1]
CompletePlan == [s \in Sections |-> IF s = "wrap" THEN 1 ELSE 2]
LowPlan == [CompletePlan EXCEPT !.ci = 3, !.wrap = 2]

\* The selections that differ from `base` in at most n sections, or in the
\* shape of the top level alone.
EditsOf(base, n) ==
    UNION { { [s \in Sections |-> IF s \in S THEN f[s] ELSE base[s]] :
                f \in {g \in [S -> 1..MostVariants] : \A s \in S : g[s] <= NumVariants[s]} } :
            S \in {T \in SUBSET Sections :
                      /\ Cardinality(T) <= n
                      /\ "wrap" \in T => Cardinality(T) <= 1} }

\* The documents handed to validate_ssp: the complete plan with up to
\* MaxEdits sections replaced, the empty plan with up to one section filled
\* in, and the low plan with every back-matter.
DocChoices ==
    EditsOf(CompletePlan, MaxEdits) \cup EditsOf(EmptyPlan, 1)
    \cup {[LowPlan EXCEPT !.bm = b] : b \in 1..NumVariants.bm}

\* The documents a file handed to validate_document decodes to: the empty
\* and the complete plan in every top-level shape, and the low plan.
FileChoices ==
    {[b EXCEPT !.wrap = w] : b \in {EmptyPlan, CompletePlan}, w \in 1..NumVariants.wrap}
    \cup {LowPlan}

Baselines == {Str("low"), Str("moderate"), Str("high"), Str("bogus"), Null}

FilePaths == {"ssp.json", "up.load/SSP.JSON", "ssp.xml", "uploads/ssp"}

DocumentTypes == {Null, Str(""), Str("system-security-plan"), Str("catalog")}

Sources ==
    {[file_path |-> p, content |-> c, tree |-> Null] :
        p \in FilePaths, c \in {"none", "text"}}
    \cup {[file_path |-> p, content |-> "json", tree |-> Doc(sel)] :
            p \in FilePaths, sel \in FileChoices}

(***************************************************************************)
(* The state machine.                                                      *)
(***************************************************************************)
Init ==
    /\ baseline_requirements = LoadBaselineRequirements
    /\ hash_seed \in 0..MaxHashSeed
    /\ vs = SspIdle
    /\ vd = VdIdle
    /\ calls = [c \in Callers |-> SspIdle]
    /\ request = RequestIdle
    /\ operations = <<>>
    /\ db_up = TRUE

\* A caller awaits validate_ssp(ssp_data, baseline).
ValidateSspCall ==
    /\ vs.pc = "idle" /\ vd.pc = "idle"
    /\ \E sel \in DocChoices, baseline \in Baselines :
          vs' = SspEnter("direct", Doc(sel), baseline)
    /\ UNCHANGED <<calls, request, operations, db_up, baseline_requirements, hash_seed, vd>>

CheckerStep(k) ==
    /\ vs.pc = "running" /\ vs.k = k
    /\ vs' = SspStep(vs, baseline_requirements, hash_seed)
    /\ UNCHANGED <<calls, request, operations, db_up, baseline_requirements, hash_seed, vd>>

RunSspStructure == CheckerStep(1)
RunSystemMetadata == CheckerStep(2)
RunControlImplementation == CheckerStep(3)
RunResponsibleRoles == CheckerStep(4)
RunComponents == CheckerStep(5)
RunAuthorizationBoundary == CheckerStep(6)
RunDataFlows == CheckerStep(7)
RunRequiredArtifacts == CheckerStep(8)

\* The direct caller takes what validate_ssp hands back.
ValidateSspReturn ==
    /\ vs.pc \in {"returned", "raised"} /\ vs.caller = "direct"
    /\ vs' = SspIdle
    /\ UNCHANGED <<calls, request, operations, db_up, baseline_requirements, hash_seed, vd>>

\* validate_document from its call to its return, or to the await of
\* validate_ssp.
ValidateDocumentCall ==
    /\ vs.pc = "idle" /\ vd.pc = "idle"
    /\ \E source \in Sources, baseline \in Baselines, document_type \in DocumentTypes :
          LET entered == VdEnter(source, baseline, document_type)
          IN  vd' = entered.vd /\ vs' = entered.vs
    /\ UNCHANGED <<calls, request, operations, db_up, baseline_requirements, hash_seed>>

\* validate_ssp hands its result, or its exception, back to validate_document.
ValidateDocumentResume ==
    /\ vd.pc = "awaiting" /\ vs.pc \in {"returned", "raised"}
    /\ vd' = VdResume(vd, vs)
    /\ vs' = SspIdle
    /\ UNCHANGED <<calls, request, operations, db_up, baseline_requirements, hash_seed>>

\* The caller takes what validate_document hands back.
ValidateDocumentReturn ==
    /\ vd.pc = "returned"
    /\ vd' = VdIdle
    /\ UNCHANGED <<calls, request, operations, db_up, baseline_requirements, hash_seed, vs>>

Next ==
    \/ ValidateSspCall
    \/ RunSspStructure
    \/ RunSystemMetadata
    \/ RunControlImplementation
    \/ RunResponsibleRoles
    \/ RunComponents
    \/ RunAuthorizationBoundary
    \/ RunDataFlows
    \/ RunRequiredArtifacts
    \/ ValidateSspReturn
    \/ ValidateDocumentCall
    \/ ValidateDocumentResume
    \/ ValidateDocumentReturn

Spec == Init /\ [][Next]_vars


(***************************************************************************)
(* validate_ssp awaited by itself, without the loader in front of it.      *)
(***************************************************************************)
SspNext ==
    \/ ValidateSspCall
    \/ RunSspStructure
    \/ RunSystemMetadata
    \/ RunControlImplementation
    \/ RunResponsibleRoles
    \/ RunComponents
    \/ RunAuthorizationBoundary
    \/ RunDataFlows
    \/ RunRequiredArtifacts
    \/ ValidateSspReturn

SspSpec == Init /\ [][SspNext]_vars

(***************************************************************************)
(* Concurrent validations: the callers' validate_ssp calls interleave at   *)
(* the awaits of the checkers.                                             *)
(***************************************************************************)
\* What the concurrent callers validate: a plan with issues of every
\* checker, a plan without any section, and a plan on which the
\* control-implementation checker fails.
ConcurrentInputs ==
    { [sel |-> CompletePlan, baseline |-> Str("high")],
      [sel |-> EmptyPlan, baseline |-> Str("bogus")],
      [sel |-> [CompletePlan EXCEPT !.ci = 7], baseline |-> Str("moderate")] }

\* Caller c enters validate_ssp.
ConcurrentCall(c) ==
    /\ calls[c].pc = "idle"
    /\ \E in \in ConcurrentInputs :
          calls' = [calls EXCEPT ![c] = SspEnter("direct", Doc(in.sel), in.baseline)]
    /\ UNCHANGED <<baseline_requirements, hash_seed, vs, vd, request, operations, db_up>>

ConcurrentStep(c) ==
    /\ calls[c].pc = "running"
    /\ calls' = CallsStep(calls, c, baseline_requirements, hash_seed)
    /\ UNCHANGED <<baseline_requirements, hash_seed, vs, vd, request, operations, db_up>>

\* Caller c takes the result of its call.
ConcurrentReturn(c) ==
    /\ calls[c].pc \in {"returned", "raised"}
    /\ calls' = [calls EXCEPT ![c] = SspIdle]
    /\ UNCHANGED <<baseline_requirements, hash_seed, vs, vd, request, operations, db_up>>

ConcurrentNext ==
    \E c \in Callers :
        \/ ConcurrentCall(c)
        \/ ConcurrentStep(c)
        \/ ConcurrentReturn(c)

ConcurrentSpec == Init /\ [][ConcurrentNext]_vars

(***************************************************************************)
(* The HTTP layer: one request at a time, from its call to its response.   *)
(***************************************************************************)
\* The uploads: a catalog, a plan without any section, a plan whose file
\* name holds a directory, an XML file, a plan that is compliant under low,
\* and a text file.
UploadKinds ==
    << [filename |-> "catalog.json", content_type |-> "application/json",
        content |-> "json", tree |-> Doc([EmptyPlan EXCEPT !.wrap = 3])],
       [filename |-> "draft.json", content_type |-> "application/json",
        content |-> "json", tree |-> Doc(EmptyPlan)],
       [filename |-> "2024/ssp.json", content_type |-> "application/json",
        content |-> "json", tree |-> Doc(LowPlan)],
       [filename |-> "ssp.xml", content_type |-> "application/xml",
        content |-> "text", tree |-> Null],
       [filename |-> "ssp.json", content_type |-> "application/json",
        content |-> "json", tree |-> Doc(LowPlan)],
       [filename |-> "ssp.txt", content_type |-> "text/plain",
        content |-> "text", tree |-> Null] >>

\* The batch requests: up to MaxFiles files of changing kinds (a catalog, a
\* plan without sections, a plan that cannot be saved), with the service or
\* with a service that raises (as the one that
\* test_fedramp_validate_service_error installs), and batches of XML files
\* at the limit and past it.
BatchRequests ==
    {[files |-> [i \in 1..n |-> UploadKinds[((i + r) % 3) + 1]],
      baseline |-> Str("low"), patched |-> p] :
        n \in 0..MaxFiles, r \in 0..2, p \in BOOLEAN}
    \cup {[files |-> [i \in 1..n |-> UploadKinds[4]],
           baseline |-> Str("moderate"), patched |-> FALSE] :
            n \in {BatchLimit, BatchLimit + 1}}

\* The database becomes unreachable while a request is handled.
DatabaseFails ==
    /\ request.pc \notin {"idle", "responded"}
    /\ Len(request.files) <= MaxFiles
    /\ db_up
    /\ db_up' = FALSE
    /\ UNCHANGED <<baseline_requirements, hash_seed, vs, vd, calls, request, operations>>

\* validate_fedramp_file up to its first await (lines 43-67).
ValidateFedrampFile ==
    /\ request.pc = "idle"
    /\ \E file \in {UploadKinds[i] : i \in 1..Len(UploadKinds)},
          baseline \in {Str("low"), Str("moderate"), Str("high")},
          document_type \in {Null, Str("catalog")},
          patched \in BOOLEAN :
          LET r == [RequestIdle EXCEPT !.endpoint = "file", !.files = <<file>>,
                                       !.baseline = baseline,
                                       !.document_type = document_type,
                                       !.patched = patched]
          IN  IF file.content_type \notin {"application/json", "application/xml", "text/xml"}
              THEN /\ request' = [r EXCEPT !.pc = "responded", !.status = 400,
                                     !.response = <<[detail |->
                                         "Only JSON and XML OSCAL files are supported"]>>]
                   /\ operations' = operations
              ELSE /\ request' = [r EXCEPT !.pc = "commit"]
                   /\ operations' = Append(operations, NewOperation(0))
    /\ UNCHANGED <<baseline_requirements, hash_seed, vs, vd, calls, db_up>>

\* await db.commit() of line 67 returns or raises.
FileCommit ==
    /\ request.endpoint = "file"
    /\ request.pc = "commit"
    /\ request' = IF db_up THEN [request EXCEPT !.pc = "validate"]
                  ELSE [request EXCEPT !.pc = "failed", !.raised = "OperationalError"]
    /\ UNCHANGED <<baseline_requirements, hash_seed, vs, vd, calls, operations, db_up>>

\* The upload is saved and validated and the operation completed
\* (lines 70-94), up to the await of the second commit.
FileValidate ==
    /\ request.endpoint = "file"
    /\ request.pc = "validate"
    /\ LET temp_file == TempFile("/tmp/fedramp_", request.files[1])
       IN  IF ~temp_file.written
           THEN /\ request' = [request EXCEPT !.pc = "failed",
                                              !.raised = "FileNotFoundError"]
                /\ operations' = operations
           ELSE IF request.patched
           THEN /\ request' = [request EXCEPT !.pc = "failed", !.raised = "Exception"]
                /\ operations' = operations
           ELSE /\ request' =
                      [request EXCEPT
                          !.pc = "record",
                          !.result = ValidateDocument(baseline_requirements, hash_seed,
                                        temp_file, request.baseline,
                                        request.document_type).result]
                /\ operations' = [operations EXCEPT ![1].status = "completed"]
    /\ UNCHANGED <<baseline_requirements, hash_seed, vs, vd, calls, db_up>>

\* await db.commit() of line 95 returns and the response is built
\* (lines 98-126), or it raises.
FileRespond ==
    /\ request.endpoint = "file"
    /\ request.pc = "record"
    /\ request' =
          IF db_up
          THEN [request EXCEPT !.pc = "responded",
                               !.status = FileStatusCode(request.result[1]),
                               !.response = <<FileResponseData(1, request.result[1])>>]
          ELSE [request EXCEPT !.pc = "failed", !.raised = "OperationalError"]
    /\ UNCHANGED <<baseline_requirements, hash_seed, vs, vd, calls, operations, db_up>>

\* The except clause of lines 128-133: the operation is marked failed and
\* the request answered with 500, by the HTTPException or, when the commit
\* of line 130 raises as well, by the server's handler of unhandled errors.
FileFailed ==
    /\ request.endpoint = "file"
    /\ request.pc = "failed"
    /\ request' = [request EXCEPT !.pc = "responded", !.status = 500,
                                  !.response = <<[detail |-> "FedRAMP validation failed"]>>]
    /\ operations' = [operations EXCEPT ![1].status = "failed"]
    /\ UNCHANGED <<baseline_requirements, hash_seed, vs, vd, calls, db_up>>

\* validate_fedramp_batch up to its first await (lines 220-239), for a
\* request out of `requests`.  The field fedramp_result of a task is what
\* fedramp_service.validate_document hands back for its file once the file
\* is saved (lines 277-280), nothing for a file that cannot be saved and
\* under a service that raises: the service reads the file and the baseline
\* alone, so the task carries the value from the start and uses it when
\* its validation takes place.
BatchArrives(requests) ==
    /\ request.pc = "idle"
    /\ \E b \in requests :
          LET r == [RequestIdle EXCEPT !.endpoint = "batch", !.files = b.files,
                                       !.baseline = b.baseline,
                                       !.patched = b.patched]
          IN  IF BatchTooLarge(b.files)
              THEN /\ request' = [r EXCEPT !.pc = "responded", !.status = 400,
                                     !.response = <<[detail |->
                                         "Batch size limited to 20 files maximum for FedRAMP validation"]>>]
                   /\ operations' = operations
              ELSE /\ request' = [r EXCEPT !.pc = "commit",
                                     !.tasks = [i \in 1..Len(b.files) |->
                                                  [pc |-> "waiting", operation |-> 0,
                                                   fedramp_result |->
                                                      LET temp_file ==
                                                             TempFile("/tmp/fedramp_batch_",
                                                                      b.files[i])
                                                      IN  IF ~temp_file.written \/ b.patched
                                                          THEN <<>>
                                                          ELSE ValidateDocument(
                                                                  baseline_requirements,
                                                                  hash_seed, temp_file,
                                                                  b.baseline, Null).result,
                                                   entry |-> <<>>]]]
                   /\ operations' = Append(operations, NewOperation(0))
    /\ UNCHANGED <<baseline_requirements, hash_seed, vs, vd, calls, db_up>>

ValidateFedrampBatch == BatchArrives(BatchRequests)

\* await db.commit() of line 239 returns, or raises outside the try block:
\* the server answers the unhandled error with 500.
BatchCommit ==
    /\ request.endpoint = "batch"
    /\ request.pc = "commit"
    /\ request' = IF db_up THEN [request EXCEPT !.pc = "gather"]
                  ELSE [request EXCEPT !.pc = "responded", !.status = 500,
                                       !.raised = "OperationalError",
                                       !.response = <<[detail |-> "Internal Server Error"]>>]
    /\ UNCHANGED <<baseline_requirements, hash_seed, vs, vd, calls, operations, db_up>>

\* A variant in which a task does not wait for a permit.
TaskStart_WithoutPermit(i) ==
    /\ request.pc = "gather"
    /\ request.tasks[i].pc = "waiting"
    /\ \A j \in 1..(i - 1) : request.tasks[j].pc # "waiting"
    /\ operations' = Append(operations, NewOperation(1))
    /\ request' = [request EXCEPT !.tasks[i].pc = "flush",
                                  !.semaphore = @ - 1,
                                  !.tasks[i].operation = Len(operations) + 1]
    /\ UNCHANGED <<baseline_requirements, hash_seed, vs, vd, calls, db_up>>

\* The task of file i enters the semaphore, in the order of the files, and
\* runs validate_single_file up to await db.flush() (lines 334, 254-269).
TaskStart(i) ==
    /\ request.pc = "gather"
    /\ request.tasks[i].pc = "waiting"
    /\ \A j \in 1..(i - 1) : request.tasks[j].pc # "waiting"
    /\ request.semaphore > 0
    /\ operations' = Append(operations, NewOperation(1))
    /\ request' = [request EXCEPT !.tasks[i].pc = "flush",
                                  !.semaphore = @ - 1,
                                  !.tasks[i].operation = Len(operations) + 1]
    /\ UNCHANGED <<baseline_requirements, hash_seed, vs, vd, calls, db_up>>

\* await db.flush() of line 269 returns, up to await file.read(), or raises:
\* the except clause of lines 314-323 gives the file's entry.
TaskFlush(i) ==
    /\ request.pc = "gather"
    /\ request.tasks[i].pc = "flush"
    /\ IF db_up
       THEN /\ request' = [request EXCEPT !.tasks[i].pc = "read"]
            /\ operations' = operations
       ELSE /\ request' =
                  [request EXCEPT
                      !.tasks[i].pc = "done",
                      !.semaphore = @ + 1,
                      !.overtaken = @ \/ \E j \in 1..(i - 1) : request.tasks[j].pc # "done",
                      !.tasks[i].entry =
                          <<BatchErrorEntry(request.tasks[i].operation,
                                            request.files[i], "OperationalError")>>]
            /\ operations' =
                  [operations EXCEPT ![request.tasks[i].operation].status = "failed"]
    /\ UNCHANGED <<baseline_requirements, hash_seed, vs, vd, calls, db_up>>

\* await file.read() returns; the file is saved and validated, its entry
\* built and the semaphore left (lines 273-328, 334).
TaskValidate(i) ==
    /\ request.pc = "gather"
    /\ request.tasks[i].pc = "read"
    /\ LET file == request.files[i]
           child == request.tasks[i].operation
           temp_file == TempFile("/tmp/fedramp_batch_", file)
           overtakes == \E j \in 1..(i - 1) : request.tasks[j].pc # "done"
           error == IF ~temp_file.written THEN "FileNotFoundError"
                    ELSE IF request.patched THEN "Exception" ELSE ""
           result == request.tasks[i].fedramp_result[1]
       IN  IF error # ""
           THEN /\ request' =
                      [request EXCEPT
                          !.tasks[i].pc = "done",
                          !.semaphore = @ + 1,
                          !.overtaken = @ \/ overtakes,
                          !.tasks[i].entry = <<BatchErrorEntry(child, file, error)>>]
                /\ operations' = [operations EXCEPT ![child].status = "failed"]
           ELSE /\ request' =
                      [request EXCEPT
                          !.tasks[i].pc = "done",
                          !.semaphore = @ + 1,
                          !.overtaken = @ \/ overtakes,
                          !.tasks[i].entry = <<BatchEntry(child, file, result)>>,
                          !.compliant_count =
                              IF result.is_compliant THEN @ + 1 ELSE @]
                /\ operations' = [operations EXCEPT ![child].status = "completed"]
    /\ UNCHANGED <<baseline_requirements, hash_seed, vs, vd, calls, db_up>>

\* gather has every file's entry: the parent operation is completed and
\* committed and the batch answered (lines 343-374), or the commit raises.
\* The compliance rate, a float, is left out of the summary.
BatchRespond ==
    /\ request.pc = "gather"
    /\ \A i \in 1..Len(request.tasks) : request.tasks[i].pc = "done"
    /\ LET n == Len(request.files)
       IN  request' =
              IF db_up
              THEN [request EXCEPT
                      !.pc = "responded", !.status = 200,
                      !.response =
                          <<[batch_operation_id |-> 1,
                             baseline |-> request.baseline,
                             summary |->
                                 [total_files |-> n,
                                  compliant |-> request.compliant_count,
                                  non_compliant |-> n - request.compliant_count],
                             results |-> [i \in 1..n |-> request.tasks[i].entry[1]]]>>]
              ELSE [request EXCEPT !.pc = "failed", !.raised = "OperationalError"]
    /\ operations' = [operations EXCEPT ![1].status = "completed"]
    /\ UNCHANGED <<baseline_requirements, hash_seed, vs, vd, calls, db_up>>

\* The except clause of lines 376-380.
BatchFailed ==
    /\ request.endpoint = "batch"
    /\ request.pc = "failed"
    /\ request' = [request EXCEPT !.pc = "responded", !.status = 500,
                                  !.response = <<[detail |-> "Batch validation failed"]>>]
    /\ operations' = [operations EXCEPT ![1].status = "failed"]
    /\ UNCHANGED <<baseline_requirements, hash_seed, vs, vd, calls, db_up>>

\* The response is sent; the next request finds the database reachable.
RequestDone ==
    /\ request.pc = "responded"
    /\ request' = RequestIdle
    /\ operations' = <<>>
    /\ db_up' = TRUE
    /\ UNCHANGED <<baseline_requirements, hash_seed, vs, vd, calls>>

ApiNext ==
    \/ DatabaseFails
    \/ ValidateFedrampFile
    \/ FileCommit
    \/ FileValidate
    \/ FileRespond
    \/ FileFailed
    \/ ValidateFedrampBatch
    \/ BatchCommit
    \/ \E i \in 1..(BatchLimit + 1) :
          /\ i <= Len(request.tasks)
          /\ \/ TaskStart(i)
             \/ TaskFlush(i)
             \/ TaskValidate(i)
    \/ BatchRespond
    \/ BatchFailed
    \/ RequestDone

ApiSpec == Init /\ [][ApiNext]_vars
(***************************************************************************)
(* Properties of the validation engine.                                    *)
(***************************************************************************)
CountCode(issues, code) ==
    Cardinality({i \in 1..Len(issues) : issues[i].code = code})

HasError(issues) == \E i \in 1..Len(issues) : issues[i].severity = "error"

\* The checkers by name, in the order the specification lists them.
OutputOf(j, ssp_data, baseline) ==
    CASE j = 1 -> ValidateSspStructure(ssp_data)
      [] j = 2 -> ValidateSystemMetadata(baseline_requirements, ssp_data, baseline)
      [] j = 3 -> ValidateControlImplementation(baseline_requirements, hash_seed,
                                                ssp_data, baseline)
      [] j = 4 -> ValidateResponsibleRoles(ssp_data)
      [] j = 5 -> ValidateComponents(ssp_data)
      [] j = 6 -> ValidateAuthorizationBoundary(ssp_data)
      [] j = 7 -> ValidateDataFlows(ssp_data, baseline)
      [] j = 8 -> ValidateRequiredArtifacts(ssp_data, baseline)

\* The issues of the checkers 1..n one after the other.
RECURSIVE OutputsUpTo(_, _, _)
OutputsUpTo(n, ssp_data, baseline) ==
    IF n = 0 THEN <<>>
    ELSE OutputsUpTo(n - 1, ssp_data, baseline) \o OutputOf(n, ssp_data, baseline).issues

\* The checker that reports an issue code.
CheckerOfCode(code) ==
    CASE code \in {"FEDRAMP_MISSING_ELEMENT", "FEDRAMP_INVALID_UUID"} -> 1
      [] code \in {"FEDRAMP_MISSING_SYSTEM_NAME", "FEDRAMP_MISSING_SYSTEM_ID",
                   "FEDRAMP_MISSING_VERSION", "FEDRAMP_MISSING_LAST_MODIFIED"} -> 2
      [] code \in {"FEDRAMP_MISSING_CONTROL_STATEMENTS", "FEDRAMP_MISSING_RESPONSIBLE_ROLES",
                   "FEDRAMP_MISSING_REQUIRED_CONTROL", "FEDRAMP_INSUFFICIENT_CONTROLS"} -> 3
      [] code \in {"FEDRAMP_MISSING_ROLE", "FEDRAMP_ROLE_WITHOUT_PARTY"} -> 4
      [] code \in {"FEDRAMP_NO_COMPONENTS", "FEDRAMP_COMPONENT_MISSING_UUID",
                   "FEDRAMP_COMPONENT_MISSING_TYPE", "FEDRAMP_COMPONENT_MISSING_TITLE"} -> 5
      [] code \in {"FEDRAMP_MISSING_AUTH_BOUNDARY", "FEDRAMP_INSUFFICIENT_AUTH_BOUNDARY",
                   "FEDRAMP_MISSING_NETWORK_ARCH"} -> 6
      [] code = "FEDRAMP_MISSING_DATA_FLOW" -> 7
      [] code = "FEDRAMP_MISSING_ARTIFACT" -> 8
      [] OTHER -> 9

\* C1: every result that validate_ssp or validate_document hands back has
\* is_compliant true exactly when none of its issues has severity error:
\* warnings and info issues never make a result non-compliant.
C1_CompliantIffNoError ==
    /\ vs.pc = "returned" =>
          (vs.result[1].is_compliant <=> ~HasError(vs.result[1].issues))
    /\ vd.pc = "returned" =>
          (vd.result[1].is_compliant <=> ~HasError(vd.result[1].issues))

\* validate_document hands back a compliant result for a system security
\* plan: the checkers ran and none reported an error.
C1_Witness ==
    /\ vd.pc = "returned"
    /\ vd.result[1].document_type = "system-security-plan"
    /\ vd.result[1].is_compliant
    /\ vd.source.content = "json"

\* C2: validate_ssp never lets an exception reach its caller, whatever the
\* shape of the document tree and whatever the baseline: every call that has
\* started either still has a checker to run or has handed back a result.
C2_NeverRaises ==
    /\ vs.pc # "raised"
    /\ vs.pc = "running" => vs.k \in 1..NumCheckers
    /\ vs.pc = "returned" =>
          /\ Len(vs.result) = 1
          /\ vs.result[1].baseline = vs.baseline
          /\ vs.result[1].document_type = "system-security-plan"

\* A checker raised on a tree that is no object, under a baseline that is no
\* string, and validate_ssp still handed back a result.
C2_Witness ==
    /\ vs.pc = "returned"
    /\ vs.failed # 0
    /\ vs.ssp_data.t # "map"
    /\ vs.baseline = Null

\* C3 as stated: when a checker fails the result holds exactly one
\* FEDRAMP_VALIDATION_ERROR and every checker after the failing one has
\* still run.
C3_LaterCheckersStillRun ==
    (vs.pc = "returned" /\ vs.failed # 0) =>
        /\ CountCode(vs.result[1].issues, "FEDRAMP_VALIDATION_ERROR") = 1
        /\ \A j \in (vs.failed + 1)..NumCheckers : j \in vs.ran

\* C3: when checker k fails, the result holds the issues of the checkers
\* before k in their order, then exactly one FEDRAMP_VALIDATION_ERROR of
\* severity error as its last issue; the failing checker and the checkers
\* after it contribute nothing, and the result is not compliant.
C3_FailureEndsTheRun ==
    (vs.pc = "returned" /\ vs.failed # 0) =>
        LET issues == vs.result[1].issues
            before == OutputsUpTo(vs.failed - 1, vs.ssp_data, vs.baseline)
        IN  /\ vs.ran = 1..(vs.failed - 1)
            /\ Len(issues) = Len(before) + 1
            /\ SubSeq(issues, 1, Len(before)) = before
            /\ issues[Len(issues)].code = "FEDRAMP_VALIDATION_ERROR"
            /\ issues[Len(issues)].severity = "error"
            /\ CountCode(issues, "FEDRAMP_VALIDATION_ERROR") = 1
            /\ ~vs.result[1].is_compliant

\* The component checker failed after earlier checkers had reported issues.
C3_Witness ==
    /\ vs.pc = "returned"
    /\ vs.failed = 5
    /\ Len(vs.result[1].issues) > 1

\* C4: when no checker fails, the issue list is the concatenation of the
\* eight checkers' outputs in the fixed order structure, metadata, control
\* implementation, roles, components, authorization boundary, data flows,
\* artifacts: every checker ran, and no issue of a later checker precedes an
\* issue of an earlier one.
C4_FixedCheckerOrder ==
    (vs.pc = "returned" /\ vs.failed = 0) =>
        LET issues == vs.result[1].issues IN
        /\ vs.ran = 1..NumCheckers
        /\ issues = OutputsUpTo(NumCheckers, vs.ssp_data, vs.baseline)
        /\ \A i \in 1..(Len(issues) - 1) :
              CheckerOfCode(issues[i].code) <= CheckerOfCode(issues[i + 1].code)

\* A run without failure in which every one of the eight checkers reported.
C4_Witness ==
    /\ vs.pc = "returned"
    /\ vs.failed = 0
    /\ \A j \in 1..NumCheckers :
          \E i \in 1..Len(vs.result[1].issues) :
              CheckerOfCode(vs.result[1].issues[i].code) = j

\* The document is an object keyed system-security-plan whose root is an
\* object.
HasMapRoot(d) ==
    /\ d.t = "map"
    /\ "system-security-plan" \in DOMAIN d.v
    /\ d.v["system-security-plan"].t = "map"

PlanRoot(d) == d.v["system-security-plan"]

\* The five sections the structural checker requires of the root object.
RootSections ==
    {"uuid", "metadata", "system-characteristics", "system-implementation",
     "control-implementation"}

HexDigits ==
    {"0", "1", "2", "3", "4", "5", "6", "7", "8", "9", "a", "b", "c", "d", "e", "f"}

\* Exactly 8-4-4-4-12 lowercase hexadecimal digits.
CanonicalUuid(s) ==
    /\ Len(s) = 36
    /\ \A i \in 1..36 :
          IF i \in {9, 14, 19, 24} THEN SubSeq(s, i, i) = "-"
          ELSE SubSeq(s, i, i) \in HexDigits

\* The issues of a list that carry a code at a location.
CountAt(issues, code, location) ==
    Cardinality({i \in 1..Len(issues) :
                    issues[i].code = code /\ issues[i].location = location})

\* C5 as stated: a document whose root object is found under the key
\* system-security-plan and holds a well-formed uuid and the four required
\* sections gets no issue from the structural checker.
C5_WellFormedRootHasNoStructuralIssue ==
    (/\ vs.pc = "running" /\ vs.k = 2
     /\ HasMapRoot(vs.ssp_data)
     /\ RootSections \subseteq DOMAIN PlanRoot(vs.ssp_data).v
     /\ PlanRoot(vs.ssp_data).v["uuid"].t = "str"
     /\ CanonicalUuid(PlanRoot(vs.ssp_data).v["uuid"].v))
    => vs.issues = <<>>

\* C6: for a root object, the result holds one FEDRAMP_MISSING_ELEMENT of
\* severity error located system-security-plan.<section> for each of uuid,
\* metadata, system-characteristics, system-implementation and
\* control-implementation that the root lacks, and none for a section it
\* holds; the document {system-security-plan: {metadata: {title: "X"}}}
\* under moderate gets the four for the sections it lacks and is not
\* compliant.
C6_OneIssuePerMissingSection ==
    (vs.pc = "returned" /\ 1 \in vs.ran /\ HasMapRoot(vs.ssp_data)) =>
        LET issues == vs.result[1].issues
            root == PlanRoot(vs.ssp_data)
        IN  /\ \A s \in RootSections :
                  CountAt(issues, "FEDRAMP_MISSING_ELEMENT", "system-security-plan." \o s)
                      = IF s \in DOMAIN root.v THEN 0 ELSE 1
            /\ \A i \in 1..Len(issues) :
                  issues[i].code = "FEDRAMP_MISSING_ELEMENT" => issues[i].severity = "error"
            /\ DOMAIN root.v \cap RootSections # RootSections => ~vs.result[1].is_compliant

\* The minimal document of the specification's acceptance test under the
\* moderate baseline.
C6_Witness ==
    /\ vs.pc = "returned"
    /\ vs.baseline = Str("moderate")
    /\ HasMapRoot(vs.ssp_data)
    /\ DOMAIN vs.ssp_data.v = {"system-security-plan"}
    /\ DOMAIN PlanRoot(vs.ssp_data).v = {"metadata"}
    /\ PlanRoot(vs.ssp_data).v["metadata"] = MkMap(<< <<"title", Str("X")>> >>)
    /\ \A s \in RootSections \ {"metadata"} :
          CountAt(vs.result[1].issues, "FEDRAMP_MISSING_ELEMENT",
                  "system-security-plan." \o s) = 1
    /\ ~vs.result[1].is_compliant

\* The uuid of the root: absent when the document has no root object or the
\* root has no uuid.
UuidOf(d) ==
    IF HasMapRoot(d) /\ "uuid" \in DOMAIN PlanRoot(d).v THEN PlanRoot(d).v["uuid"]
    ELSE Absent

MissingUuidCount(issues) ==
    CountAt(issues, "FEDRAMP_MISSING_ELEMENT", "system-security-plan.uuid")

\* C7 as stated, for a root object whose uuid, when present, is a string:
\* the result never holds both the FEDRAMP_MISSING_ELEMENT located
\* system-security-plan.uuid and FEDRAMP_INVALID_UUID; a missing uuid gives
\* only the former, a present uuid that is not 8-4-4-4-12 lowercase
\* hexadecimal gives only the latter, and a present matching uuid gives
\* neither.
C7_UuidIssuesByForm ==
    (vs.pc = "returned" /\ HasMapRoot(vs.ssp_data)
        /\ UuidOf(vs.ssp_data).t \in {"absent", "str"}) =>
        LET issues == vs.result[1].issues
            uuid == UuidOf(vs.ssp_data)
            missing == MissingUuidCount(issues)
            invalid == CountCode(issues, "FEDRAMP_INVALID_UUID")
        IN  IF uuid.t = "absent" THEN missing = 1 /\ invalid = 0
            ELSE IF CanonicalUuid(uuid.v) THEN missing = 0 /\ invalid = 0
            ELSE missing = 0 /\ invalid = 1

\* Absent, or a value Python counts as false: None, False, 0, "", [] and {}.
IsEmpty(x) ==
    \/ x.t \in {"absent", "null"}
    \/ x.t = "bool" /\ ~x.v
    \/ x.t = "num" /\ x.v = 0
    \/ x.t \in {"str", "list"} /\ Len(x.v) = 0
    \/ x.t = "map" /\ DOMAIN x.v = {}

\* The value at root.<section>.<field>, Absent when the path is not there.
FieldOf(d, section, field) ==
    IF HasMapRoot(d) /\ section \in DOMAIN PlanRoot(d).v
    THEN LET s == PlanRoot(d).v[section]
         IN  IF s.t = "map" /\ field \in DOMAIN s.v THEN s.v[field] ELSE Absent
    ELSE Absent

DataFlowOf(d) == FieldOf(d, "system-characteristics", "data-flow")

KnownBaselines == {Str("low"), Str("moderate"), Str("high")}

\* The FEDRAMP_MISSING_DATA_FLOW issues a baseline asks for when the
\* data-flow documentation is lacking.
DataFlowIssuesAsked(issues, baseline) ==
    LET n == CountCode(issues, "FEDRAMP_MISSING_DATA_FLOW")
        severities == {issues[i].severity : i \in {j \in 1..Len(issues) :
                            issues[j].code = "FEDRAMP_MISSING_DATA_FLOW"}}
    IN  CASE baseline.v = "low" -> n = 0
          [] baseline.v = "moderate" -> n = 1 /\ severities = {"warning"}
          [] baseline.v = "high" -> n = 1 /\ severities = {"error"}

\* C8 as stated, for the runs in which no checker fails: a document without
\* the key system-characteristics.data-flow gets no FEDRAMP_MISSING_DATA_FLOW
\* under low, one warning under moderate and one error under high; a
\* document with the key gets none under any baseline.
C8_DataFlowByKeyPresence ==
    (vs.pc = "returned" /\ vs.failed = 0 /\ vs.baseline \in KnownBaselines) =>
        IF DataFlowOf(vs.ssp_data).t = "absent"
        THEN DataFlowIssuesAsked(vs.result[1].issues, vs.baseline)
        ELSE CountCode(vs.result[1].issues, "FEDRAMP_MISSING_DATA_FLOW") = 0

\* C8: in a run in which the data-flow checker is reached and completes, a
\* document whose system-characteristics.data-flow is absent or empty gets
\* no FEDRAMP_MISSING_DATA_FLOW under low, exactly one of severity warning
\* under moderate and exactly one of severity error under high; a document
\* whose data-flow is not empty gets none under any baseline, and neither
\* does a run that ends before the data-flow checker.
C8_DataFlowByBaseline ==
    vs.pc = "returned" =>
        LET issues == vs.result[1].issues
            none == CountCode(issues, "FEDRAMP_MISSING_DATA_FLOW") = 0
        IN  /\ 7 \notin vs.ran => none
            /\ ~IsEmpty(DataFlowOf(vs.ssp_data)) => none
            /\ (7 \in vs.ran /\ vs.baseline \in KnownBaselines
                    /\ IsEmpty(DataFlowOf(vs.ssp_data)))
                  => DataFlowIssuesAsked(issues, vs.baseline)

\* Under high, a data-flow that is present and empty is reported as an error.
C8_Witness ==
    /\ vs.pc = "returned"
    /\ vs.baseline = Str("high")
    /\ 7 \in vs.ran
    /\ DataFlowOf(vs.ssp_data) = EmptyMap
    /\ \E i \in 1..Len(vs.result[1].issues) :
          /\ vs.result[1].issues[i].code = "FEDRAMP_MISSING_DATA_FLOW"
          /\ vs.result[1].issues[i].severity = "error"

\* The records of control-implementation.implemented-requirements.
RequirementsOf(d) ==
    LET reqs == FieldOf(d, "control-implementation", "implemented-requirements")
    IN  IF reqs.t = "list" THEN reqs.v ELSE <<>>

\* implementedSet: the distinct lower-cased non-empty control-ids.
ImplementedSet(d) ==
    LET reqs == RequirementsOf(d)
        named == {i \in 1..Len(reqs) :
                    /\ reqs[i].t = "map"
                    /\ "control-id" \in DOMAIN reqs[i].v
                    /\ reqs[i].v["control-id"].t = "str"
                    /\ reqs[i].v["control-id"].v # ""}
    IN  {Lower(reqs[i].v["control-id"].v) : i \in named}

RequiredControlsOf(baseline) ==
    LET controls == BaselineReqs(LoadBaselineRequirements, baseline).required_controls
    IN  {controls[i] : i \in 1..Len(controls)}

MessagesOf(issues, code) ==
    {issues[i].message : i \in {j \in 1..Len(issues) : issues[j].code = code}}

\* C9: when the control-implementation checker completes, the result holds
\* exactly |requiredControls minus implementedSet| FEDRAMP_MISSING_REQUIRED_CONTROL
\* errors, one per missing control, and exactly one FEDRAMP_INSUFFICIENT_CONTROLS
\* error when |implementedSet| < min_controls and none otherwise, where
\* implementedSet holds the distinct lower-cased non-empty control-ids; either
\* count is what it is whatever the other.
C9_ControlCoverageAdditivity ==
    (vs.pc = "returned" /\ 3 \in vs.ran) =>
        LET issues == vs.result[1].issues
            implementedSet == ImplementedSet(vs.ssp_data)
            missing == RequiredControlsOf(vs.baseline) \ implementedSet
            min_controls == BaselineReqs(LoadBaselineRequirements, vs.baseline).min_controls
        IN  /\ CountCode(issues, "FEDRAMP_MISSING_REQUIRED_CONTROL") = Cardinality(missing)
            /\ MessagesOf(issues, "FEDRAMP_MISSING_REQUIRED_CONTROL")
                  = {"Required control " \o Upper(c) \o " is not implemented" : c \in missing}
            /\ CountCode(issues, "FEDRAMP_INSUFFICIENT_CONTROLS")
                  = IF Cardinality(implementedSet) < min_controls THEN 1 ELSE 0
            /\ \A i \in 1..Len(issues) :
                  issues[i].code \in {"FEDRAMP_MISSING_REQUIRED_CONTROL",
                                      "FEDRAMP_INSUFFICIENT_CONTROLS"}
                      => issues[i].severity = "error"

\* Records with duplicate and case-variant control-ids under low: the
\* controls count once, required controls are missing and the count is
\* below the minimum.
C9_Witness ==
    /\ vs.pc = "returned"
    /\ 3 \in vs.ran
    /\ vs.baseline = Str("low")
    /\ Len(RequirementsOf(vs.ssp_data)) > Cardinality(ImplementedSet(vs.ssp_data))
    /\ "ac-1" \in ImplementedSet(vs.ssp_data)
    /\ CountCode(vs.result[1].issues, "FEDRAMP_MISSING_REQUIRED_CONTROL") = 115
    /\ CountCode(vs.result[1].issues, "FEDRAMP_INSUFFICIENT_CONTROLS") = 1

ComponentsOf(d) == FieldOf(d, "system-implementation", "components")

ComponentCodes ==
    {"FEDRAMP_COMPONENT_MISSING_UUID", "FEDRAMP_COMPONENT_MISSING_TYPE",
     "FEDRAMP_COMPONENT_MISSING_TITLE"}

ComponentIssueCount(issues) ==
    Cardinality({i \in 1..Len(issues) : issues[i].code \in ComponentCodes})

\* The value of a component's field, Absent when the component lacks it.
ComponentField(component, field) ==
    IF component.t = "map" /\ field \in DOMAIN component.v THEN component.v[field]
    ELSE Absent

\* The errors of code FEDRAMP_COMPONENT_MISSING_<FIELD> located at the
\* component with index idx.
ComponentErrors(issues, idx, field) ==
    Cardinality({i \in 1..Len(issues) :
        /\ issues[i].code = "FEDRAMP_COMPONENT_MISSING_" \o Upper(field)
        /\ issues[i].severity = "error"
        /\ issues[i].location =
              "system-security-plan.system-implementation.components["
                  \o ToString(idx) \o "]." \o field})

Bit(b) == IF b THEN 1 ELSE 0

RECURSIVE Sum(_, _)
Sum(f, n) == IF n = 0 THEN 0 ELSE f[n] + Sum(f, n - 1)

\* C10 as stated, for the runs in which no checker fails: components absent
\* or an empty list gives exactly one FEDRAMP_NO_COMPONENTS and no
\* per-component error; a non-empty list gives no FEDRAMP_NO_COMPONENTS and
\* for each component one error for each of: no uuid key, no type key, no
\* title key or a title shorter than 3 trimmed characters.
C10_ComponentsByKeyPresence ==
    (vs.pc = "returned" /\ vs.failed = 0) =>
        LET issues == vs.result[1].issues
            components == ComponentsOf(vs.ssp_data)
        IN  /\ (components.t = "absent" \/ components = EmptyList) =>
                  /\ CountCode(issues, "FEDRAMP_NO_COMPONENTS") = 1
                  /\ ComponentIssueCount(issues) = 0
            /\ (components.t = "list" /\ Len(components.v) > 0) =>
                  /\ CountCode(issues, "FEDRAMP_NO_COMPONENTS") = 0
                  /\ \A i \in 1..Len(components.v) :
                        LET title == ComponentField(components.v[i], "title") IN
                        /\ ComponentErrors(issues, i - 1, "uuid")
                              = Bit(ComponentField(components.v[i], "uuid").t = "absent")
                        /\ ComponentErrors(issues, i - 1, "type")
                              = Bit(ComponentField(components.v[i], "type").t = "absent")
                        /\ ComponentErrors(issues, i - 1, "title")
                              = Bit(\/ title.t = "absent"
                                    \/ title.t = "str" /\ Len(Strip(title.v)) < 3)

\* C10: when the components checker completes: if
\* system-implementation.components is absent or empty the result holds
\* exactly one FEDRAMP_NO_COMPONENTS error and no per-component error;
\* otherwise it holds no FEDRAMP_NO_COMPONENTS, and each component
\* contributes between 0 and 3 errors, one for each of: uuid absent or empty,
\* type absent or empty, title absent, empty or shorter than 3 trimmed
\* characters.  A run that ends before the components checker completes
\* holds none of these errors.
C10_ComponentsShortCircuit ==
    vs.pc = "returned" =>
        LET issues == vs.result[1].issues
            components == ComponentsOf(vs.ssp_data)
        IN  IF 5 \notin vs.ran
            THEN CountCode(issues, "FEDRAMP_NO_COMPONENTS") = 0
                 /\ ComponentIssueCount(issues) = 0
            ELSE IF IsEmpty(components)
            THEN /\ CountCode(issues, "FEDRAMP_NO_COMPONENTS") = 1
                 /\ ComponentIssueCount(issues) = 0
                 /\ \A i \in 1..Len(issues) :
                       issues[i].code = "FEDRAMP_NO_COMPONENTS" => issues[i].severity = "error"
            ELSE /\ CountCode(issues, "FEDRAMP_NO_COMPONENTS") = 0
                 /\ components.t = "list"
                 /\ LET errors == [i \in 1..Len(components.v) |->
                           [field \in {"uuid", "type", "title"} |->
                               ComponentErrors(issues, i - 1, field)]]
                        each == [i \in 1..Len(components.v) |->
                           errors[i]["uuid"] + errors[i]["type"] + errors[i]["title"]]
                    IN  /\ \A i \in 1..Len(components.v) :
                              LET title == ComponentField(components.v[i], "title") IN
                              /\ errors[i]["uuid"]
                                    = Bit(IsEmpty(ComponentField(components.v[i], "uuid")))
                              /\ errors[i]["type"]
                                    = Bit(IsEmpty(ComponentField(components.v[i], "type")))
                              /\ errors[i]["title"]
                                    = Bit(IsEmpty(title) \/ Len(Strip(title.v)) < 3)
                        /\ ComponentIssueCount(issues) = Sum(each, Len(components.v))

\* A list of components of which one contributes three errors and one none.
C10_Witness ==
    /\ vs.pc = "returned"
    /\ 5 \in vs.ran
    /\ ComponentsOf(vs.ssp_data).t = "list"
    /\ \E i, j \in 1..Len(ComponentsOf(vs.ssp_data).v) :
          /\ \A field \in {"uuid", "type", "title"} :
                /\ ComponentErrors(vs.result[1].issues, i - 1, field) = 1
                /\ ComponentErrors(vs.result[1].issues, j - 1, field) = 0


(***************************************************************************)
(* Determinism and the advisory artifacts check.                           *)
(***************************************************************************)
\* C11: validating the same document tree against the same baseline twice
\* yields the same issues sequence, in order and content, the order of the
\* FEDRAMP_MISSING_REQUIRED_CONTROL issues included: whatever the hash seed
\* of the process that validates the document a second time, its issues are
\* those of the run at hand.
C11_SameIssuesUnderEverySeed ==
    vs.pc = "returned" =>
        \A seed \in 0..MaxHashSeed :
            ValidateSsp(baseline_requirements, seed, vs.ssp_data, vs.baseline).result[1].issues
                = vs.result[1].issues

\* The strings the artifacts check of a plan collects: the lower-cased title
\* of every resource and the lower-cased value of every prop named
\* document-type.
CollectedStrings(ssp_data) ==
    LET at(x, key) == IF x.t = "map" /\ key \in DOMAIN x.v THEN x.v[key] ELSE Absent
        resources == FieldOf(ssp_data, "back-matter", "resources")
        items == IF resources.t = "list" THEN resources.v ELSE <<>>
        propsOf(r) == IF at(r, "props").t = "list" THEN at(r, "props").v ELSE <<>>
    IN  {Lower(at(items[i], "title").v) :
            i \in {j \in 1..Len(items) : at(items[j], "title").t = "str"}}
        \cup UNION {{Lower(at(propsOf(items[i])[n], "value").v) :
                        n \in {m \in 1..Len(propsOf(items[i])) :
                                 /\ at(propsOf(items[i])[m], "name") = Str("document-type")
                                 /\ at(propsOf(items[i])[m], "value").t = "str"}} :
                    i \in 1..Len(items)}

\* The required artifact categories, of those in `categories`, that none of
\* the collected strings contains.
LackingArtifacts(ssp_data, categories) ==
    {c \in categories :
        ~\E collected \in CollectedStrings(ssp_data) : Substring(c, collected)}

\* The issues of a result that report category c as a missing artifact.
ArtifactIssuesFor(issues, c) ==
    {i \in 1..Len(issues) :
        /\ issues[i].code = "FEDRAMP_MISSING_ARTIFACT"
        /\ Substring("'" \o c \o "'", issues[i].message)}

\* The plan with its back-matter taken out.
WithoutBackMatter(ssp_data) ==
    IF ~HasMapRoot(ssp_data) THEN ssp_data
    ELSE LET root == ssp_data.v["system-security-plan"]
             bare == Map([k \in DOMAIN root.v \ {"back-matter"} |-> root.v[k]])
         IN  Map([ssp_data.v EXCEPT !["system-security-plan"] = bare])

\* Every FEDRAMP_MISSING_ARTIFACT issue of a result is a warning, there is
\* one per required category that no collected string contains, and none
\* for any other category.
ArtifactIssuesAsStated(issues, ssp_data, baseline) ==
    LET categories == {RequiredArtifacts(baseline)[i] :
                          i \in 1..Len(RequiredArtifacts(baseline))}
        lacking == LackingArtifacts(ssp_data, categories)
    IN  /\ \A c \in categories :
               Cardinality(ArtifactIssuesFor(issues, c)) = IF c \in lacking THEN 1 ELSE 0
        /\ CountCode(issues, "FEDRAMP_MISSING_ARTIFACT") = Cardinality(lacking)
        /\ \A i \in 1..Len(issues) :
               issues[i].code = "FEDRAMP_MISSING_ARTIFACT" => issues[i].severity = "warning"

\* The is_compliant of the same plan, validated against the same baseline,
\* once its back-matter is taken out.
CompliantWithoutBackMatter(ssp_data, baseline) ==
    ValidateSsp(baseline_requirements, hash_seed, WithoutBackMatter(ssp_data),
                baseline).result[1].is_compliant

OnlyIssue(result) == result.issues[1]

\* validate_document has handed back a result built by its except clause:
\* non-compliant, with the one error issue FEDRAMP_VALIDATION_FAILED that
\* carries the failure as context, after a call for which no checker ran.
FailedWithoutChecking(d) ==
    /\ ~d.result[1].is_compliant
    /\ Len(d.result[1].issues) = 1
    /\ OnlyIssue(d.result[1]).severity = "error"
    /\ OnlyIssue(d.result[1]).code = "FEDRAMP_VALIDATION_FAILED"
    /\ OnlyIssue(d.result[1]).context # ""
    /\ d.ran = {}

\* The file of a source cannot be read, or what it holds is no JSON text.
Undecodable(source) == source.content \in {"none", "text"}

\* C13: when reading or JSON-decoding the source fails, validate_document
\* returns a non-compliant result whose only issue is the error
\* FEDRAMP_VALIDATION_FAILED with a non-empty context, and no rule checker
\* runs: the call never awaits validate_ssp.
C13_DecodeFailureIsOneError ==
    (vd.pc # "idle" /\ Lower(PathSuffix(vd.source.file_path)) = ".json"
        /\ Undecodable(vd.source)) =>
        /\ vd.pc = "returned"
        /\ vs.pc = "idle"
        /\ FailedWithoutChecking(vd)

\* validate_document has handed back its result for a JSON file that does
\* not exist and for one that holds no JSON text.
C13_Witness ==
    /\ vd.pc = "returned"
    /\ vd.source.file_path = "ssp.json"
    /\ vd.source.content = "text"
    /\ OnlyIssue(vd.result[1]).context = "JSONDecodeError"

\* The result of a call for a source that is taken for XML: the except
\* clause's result for the NotImplementedError of the loading step.  The
\* file is not decoded, the detector and the checkers are not reached.
RefusedAsXml(d) ==
    /\ FailedWithoutChecking(d)
    /\ OnlyIssue(d.result[1]).context = "NotImplementedError"
    /\ Substring("XML parsing not yet implemented", OnlyIssue(d.result[1]).message)
    /\ d.document_type = d.given

\* C14 as stated: for every source whose file suffix is not .json,
\* validate_document returns a non-compliant result with the single error
\* that XML parsing is not implemented, and the content of the source is
\* neither decoded as JSON nor handed to the detector or the checkers.
C14_NotJsonSuffixIsRefused ==
    (vd.pc # "idle" /\ PathSuffix(vd.source.file_path) # ".json") =>
        /\ vd.pc = "returned"
        /\ vs.pc = "idle"
        /\ RefusedAsXml(vd)

\* C14 (amended): for every source whose file suffix, compared without
\* regard to the case of its letters, is not .json, validate_document
\* returns a non-compliant result with the single error that XML parsing is
\* not implemented, and the content of the source is neither decoded as JSON
\* nor handed to the detector or the checkers.
C14_XmlIsRefused ==
    (vd.pc # "idle" /\ Lower(PathSuffix(vd.source.file_path)) # ".json") =>
        /\ vd.pc = "returned"
        /\ vs.pc = "idle"
        /\ RefusedAsXml(vd)

\* validate_document has refused a file named .xml that holds the JSON text
\* of a system security plan.
C14_Witness ==
    /\ vd.pc = "returned"
    /\ vd.source.file_path = "ssp.xml"
    /\ vd.source.content = "json"
    /\ HasMapRoot(vd.source.tree)
    /\ OnlyIssue(vd.result[1]).context = "NotImplementedError"

\* The source of a call was read and decoded.
Decoded(source) ==
    Lower(PathSuffix(source.file_path)) = ".json" /\ source.content = "json"

\* The type a decoded document is routed by: the supplied one, or the
\* detected one when none is supplied and the detector can look into the
\* document; "" when there is neither.
RoutedType(d) ==
    IF Truthy(d.given) THEN d.given.v
    ELSE IF CanContain(d.source.tree) THEN DetectDocumentType(d.source.tree)
    ELSE ""

\* C15: for a successfully decoded document whose supplied or detected type
\* is not system-security-plan, validate_document returns a compliant result
\* that echoes the type and holds exactly one issue, of severity info, which
\* says that validation for that type is not yet implemented; no rule
\* checker runs.
C15_OtherTypesPassUnchecked ==
    (vd.pc # "idle" /\ Decoded(vd.source)
        /\ RoutedType(vd) \notin {"", "system-security-plan"}) =>
        /\ vd.pc = "returned"
        /\ vs.pc = "idle"
        /\ vd.ran = {}
        /\ vd.result[1].is_compliant
        /\ vd.result[1].document_type = RoutedType(vd)
        /\ Len(vd.result[1].issues) = 1
        /\ OnlyIssue(vd.result[1]).severity = "info"
        /\ Substring("not yet implemented for " \o RoutedType(vd),
                     OnlyIssue(vd.result[1]).message)

\* A document that holds no key of any known type was decoded, detected as
\* unknown and passed.
C15_Witness ==
    /\ vd.pc = "returned"
    /\ Decoded(vd.source)
    /\ ~Truthy(vd.given)
    /\ vd.result[1].document_type = "unknown"
    /\ vd.result[1].is_compliant

\* The keys the detector looks for, in the order of their priority.
TypeKeyOrder ==
    << "system-security-plan", "catalog", "profile", "component-definition",
       "assessment-plan", "assessment-results", "plan-of-action-and-milestones" >>

\* The first key of TypeKeyOrder among `keys`, "unknown" when there is none.
FirstTypeKey(keys) ==
    LET at == {i \in 1..Len(TypeKeyOrder) : TypeKeyOrder[i] \in keys}
    IN  IF at = {} THEN "unknown"
        ELSE TypeKeyOrder[CHOOSE i \in at : \A j \in at : i <= j]

\* C16: on every document tree (an object) the detector returns the first
\* of system-security-plan, catalog, profile, component-definition,
\* assessment-plan, assessment-results, plan-of-action-and-milestones that
\* is a top-level key, and unknown when none is; it does not fail, so that
\* the call goes on to route the document by the detected type.
C16_DetectorPriority ==
    (vd.pc # "idle" /\ Decoded(vd.source) /\ vd.source.tree.t = "map"
        /\ ~Truthy(vd.given)) =>
        /\ vd.document_type = Str(FirstTypeKey(DOMAIN vd.source.tree.v))
        /\ vd.pc = "returned" =>
              /\ vd.result[1].document_type = FirstTypeKey(DOMAIN vd.source.tree.v)
              /\ \A i \in 1..Len(vd.result[1].issues) :
                    vd.result[1].issues[i].code # "FEDRAMP_VALIDATION_FAILED"

\* The detector met a tree that holds several of the keys, three of them
\* after the one it returned.
C16_Witness ==
    /\ vd.pc = "returned"
    /\ Decoded(vd.source)
    /\ ~Truthy(vd.given)
    /\ vd.source.tree.t = "map"
    /\ {"component-definition", "assessment-results"} \subseteq DOMAIN vd.source.tree.v
    /\ vd.result[1].document_type = "component-definition"

(***************************************************************************)
(* Purity of the validation.                                               *)
(***************************************************************************)
\* C17: validation reads its inputs and writes none of them.  Whatever
\* validate_ssp calls were made, the baseline requirement registry is the
\* one loaded at construction, and from the first checker of a call to its
\* return the document tree of the call is the tree that was handed in.
C17_ValidationIsPure ==
    [][/\ baseline_requirements' = LoadBaselineRequirements
       /\ vs.pc = "running" => vs'.ssp_data = vs.ssp_data
       /\ (vd.pc = "awaiting" /\ vs'.pc # "idle") => vs'.ssp_data = vd.source.tree]_vars

\* A validate_ssp call on a plan ran all its checkers and returned, and the
\* registry still holds the 117 required controls of the low baseline.
C17_Witness ==
    /\ vs.pc = "returned"
    /\ vs.ran = 1..NumCheckers
    /\ HasMapRoot(vs.ssp_data)
    /\ Len(baseline_requirements["low"].required_controls) = 117

(***************************************************************************)
(* Concurrent validations.                                                 *)
(***************************************************************************)
\* The frame of a call that runs alone, when it is about to call checker k
\* or, if it ends before that, at its end.
RECURSIVE AloneUntil(_, _, _, _)
AloneUntil(f, k, reg, seed) ==
    IF f.pc = "running" /\ f.k < k THEN AloneUntil(SspStep(f, reg, seed), k, reg, seed)
    ELSE f

\* C18: concurrent validations need no coordination.  However the
\* validate_ssp calls of several callers on one validator interleave at the
\* awaits of their checkers, each call is at every await where it is when
\* it runs alone, with the same issues collected, and its result, the
\* issues, is_compliant, baseline and counts, is the result it has when it
\* runs alone; in particular it holds no issue of another call's document.
C18_ConcurrentCallsAreIndependent ==
    \A c \in Callers :
        calls[c].pc # "idle" =>
            calls[c] = AloneUntil(SspEnter("direct", calls[c].ssp_data, calls[c].baseline),
                                  IF calls[c].pc = "running" THEN calls[c].k
                                  ELSE NumCheckers + 1,
                                  baseline_requirements, hash_seed)

\* Two calls on different documents are in progress at once, each between
\* two of its checkers with issues collected, and a third party's call, or
\* one of the two, will return while the other goes on.
C18_Witness ==
    \E c \in Callers, o \in Callers :
        /\ calls[c].pc = "running" /\ calls[c].k = NumCheckers
        /\ calls[o].pc = "running" /\ calls[o].k > 2
        /\ calls[o].ssp_data # calls[c].ssp_data
        /\ Len(calls[c].issues) > 1
        /\ Len(calls[o].issues) > 1
        /\ calls[c].issues # calls[o].issues

(***************************************************************************)
(* The HTTP layer.                                                         *)
(***************************************************************************)
\* The single-file request has been answered.
FileAnswered == request.endpoint = "file" /\ request.pc = "responded"

\* The service returned this result to the single-file request.
ServiceReturned == request.result # <<>>

\* The response lists the issues of the result, in their order, each with
\* every field of the issue.
ListsEveryIssue ==
    LET issues == request.result[1].issues
        listed == request.response[1].issues
    IN  /\ Len(listed) = Len(issues)
        /\ \A i \in 1..Len(issues) :
              /\ DOMAIN listed[i] = DOMAIN issues[i]
              /\ \A field \in DOMAIN issues[i] : listed[i][field] = issues[i][field]

\* C19 as stated: the single-file endpoint answers 200 if and only if the
\* service returned a result with is_compliant true, 400 when the result has
\* is_compliant false, and 500 when the service call raises; the 200 and 400
\* responses list the issues of the result in order with all fields.
C19_StatusFollowsResult ==
    FileAnswered =>
        /\ request.status = 200 <=> (ServiceReturned /\ request.result[1].is_compliant)
        /\ (ServiceReturned /\ ~request.result[1].is_compliant) => request.status = 400
        /\ request.raised = "Exception" => request.status = 500
        /\ (ServiceReturned /\ request.status \in {200, 400}) => ListsEveryIssue

\* C19, amended: the single-file endpoint answers 200 if and only if the
\* service returned a result with is_compliant true and the commit that
\* records the completed operation succeeded, 400 when the result has
\* is_compliant false and that commit succeeded, and 500 when the service
\* call, the saving of the upload or a commit raises; the 200 and 400
\* responses that follow a result list its issues in order with all fields.
C19_StatusFollowsRecordedResult ==
    FileAnswered =>
        LET recorded == ServiceReturned /\ request.raised = ""
        IN  /\ request.status = 200 <=> (recorded /\ request.result[1].is_compliant)
            /\ (recorded /\ ~request.result[1].is_compliant) => request.status = 400
            /\ request.raised # "" => request.status = 500
            /\ (ServiceReturned /\ request.status \in {200, 400}) => ListsEveryIssue

\* A plan is answered with 400 and its several issues, errors and warnings
\* among them.
C19_Witness ==
    /\ FileAnswered
    /\ ServiceReturned
    /\ request.status = 400
    /\ request.result[1].document_type = "system-security-plan"
    /\ CountSeverity(request.result[1].issues, "error") > 1
    /\ CountSeverity(request.result[1].issues, "warning") > 1
    /\ Len(request.response[1].issues) = Len(request.result[1].issues)

\* C20: a batch request with more than 20 files is answered with 400 with no
\* operation record created and no file validated, and a batch request with
\* 20 files or fewer is never answered with the rejection.
C20_BatchSizeLimit ==
    (request.endpoint = "batch" /\ request.pc # "idle") =>
        IF Len(request.files) > 20
        THEN /\ request.pc = "responded"
             /\ request.status = 400
             /\ operations = <<>>
             /\ request.tasks = <<>>
             /\ request.compliant_count = 0
        ELSE /\ request.status \in {0, 200, 500}
             /\ Len(operations) >= 1
             /\ Len(request.tasks) = Len(request.files)

\* A batch of 21 files has been refused.
C20_Witness ==
    /\ request.endpoint = "batch"
    /\ Len(request.files) = 21
    /\ request.pc = "responded"
    /\ request.status = 400
    /\ operations = <<>>

\* The batch request has been answered with the results of its files.
BatchAnswered ==
    request.endpoint = "batch" /\ request.pc = "responded" /\ request.status = 200

\* C21: the answer to an accepted batch of n files has n result entries, the
\* i-th of them of the i-th uploaded file, in whatever order the validations
\* ended; summary.compliant is the number of entries with is_compliant true,
\* compliant and non_compliant add up to total_files, which is n; the entry
\* of a file whose validation raised is not compliant.
C21_BatchResultsInFileOrder ==
    BatchAnswered =>
        LET n == Len(request.files)
            results == request.response[1].results
            summary == request.response[1].summary
        IN  /\ Len(results) = n
            /\ \A i \in 1..n :
                  /\ results[i].filename = request.files[i].filename
                  /\ results[i].operation_id = request.tasks[i].operation
                  /\ "error" \in DOMAIN results[i] => ~results[i].is_compliant
            /\ summary.compliant =
                  Cardinality({i \in 1..n : results[i].is_compliant})
            /\ summary.total_files = n
            /\ summary.compliant + summary.non_compliant = summary.total_files

\* A batch is answered in which a later file's validation ended before an
\* earlier one's, one file is compliant, one is not and one raised.
C21_Witness ==
    /\ BatchAnswered
    /\ request.overtaken
    /\ Len(request.files) = 3
    /\ request.response[1].summary.compliant = 1
    /\ \E i \in 1..3 : "error" \in DOMAIN request.response[1].results[i]
    /\ \E i \in 1..3 :
          /\ "error" \notin DOMAIN request.response[1].results[i]
          /\ ~request.response[1].results[i].is_compliant

(***************************************************************************)
(* The system-metadata checker.                                            *)
(***************************************************************************)
\* The baseline's required_metadata list names the field.
RequiresMetadata(baseline, field) ==
    LET fields == BaselineReqs(baseline_requirements, baseline).required_metadata
    IN  \E i \in 1..Len(fields) : fields[i] = field

\* metadata is an object, or the plan has no metadata.
MetadataIsObject(d) ==
    HasMapRoot(d) => ("metadata" \in DOMAIN PlanRoot(d).v
                         => PlanRoot(d).v["metadata"].t = "map")

\* The issues with this code are n in number and have this severity.
CountIs(issues, code, n, severity) ==
    /\ CountCode(issues, code) = n
    /\ \A i \in 1..Len(issues) : issues[i].code = code => issues[i].severity = severity

\* What the system-metadata checker reports for a document, given whether
\* the document counts as lacking a system-id.
MetadataIssuesAre(issues, d, baseline, lacks_id) ==
    LET title == FieldOf(d, "metadata", "title")
        short == IsEmpty(title) \/ (title.t = "str" /\ Len(Strip(title.v)) < 3)
    IN  /\ CountIs(issues, "FEDRAMP_MISSING_SYSTEM_NAME",
                   Bit(RequiresMetadata(baseline, "system_name") /\ short), "error")
        /\ CountIs(issues, "FEDRAMP_MISSING_SYSTEM_ID",
                   Bit(RequiresMetadata(baseline, "system_id") /\ lacks_id), "error")
        /\ CountIs(issues, "FEDRAMP_MISSING_VERSION",
                   Bit(FieldOf(d, "metadata", "version").t = "absent"), "warning")
        /\ CountIs(issues, "FEDRAMP_MISSING_LAST_MODIFIED",
                   Bit(FieldOf(d, "metadata", "last-modified").t = "absent"), "warning")

\* C22 as stated, for the runs in which no checker fails:
\* FEDRAMP_MISSING_SYSTEM_NAME (error) exactly when system_name is required
\* and metadata.title is empty or under 3 trimmed characters,
\* FEDRAMP_MISSING_SYSTEM_ID (error) exactly when system_id is required and
\* system-characteristics.system-id is absent, and under every baseline one
\* warning for an absent metadata.version and one for an absent
\* metadata.last-modified.
C22_SystemIdByKeyPresence ==
    (vs.pc = "returned" /\ vs.failed = 0 /\ MetadataIsObject(vs.ssp_data)) =>
        MetadataIssuesAre(vs.result[1].issues, vs.ssp_data, vs.baseline,
            FieldOf(vs.ssp_data, "system-characteristics", "system-id").t = "absent")

\* C22: in a run in which the system-metadata checker is reached and
\* completes, on a plan whose metadata is an object or absent,
\* FEDRAMP_MISSING_SYSTEM_NAME (error) is emitted exactly when system_name is
\* required and metadata.title is empty or under 3 trimmed characters,
\* FEDRAMP_MISSING_SYSTEM_ID (error) exactly when system_id is required and
\* system-characteristics.system-id is absent or empty, and under every
\* baseline an absent metadata.version and an absent metadata.last-modified
\* each give exactly one issue, a warning.
C22_SystemMetadataIssues ==
    (vs.pc = "returned" /\ 2 \in vs.ran /\ MetadataIsObject(vs.ssp_data)) =>
        MetadataIssuesAre(vs.result[1].issues, vs.ssp_data, vs.baseline,
            IsEmpty(FieldOf(vs.ssp_data, "system-characteristics", "system-id")))

\* A plan whose title is blank past two characters and that has a version
\* and no last-modified is reported under a baseline that requires the name.
C22_Witness ==
    /\ vs.pc = "returned"
    /\ 2 \in vs.ran
    /\ RequiresMetadata(vs.baseline, "system_name")
    /\ FieldOf(vs.ssp_data, "metadata", "title") = Str("  ab \n")
    /\ CountCode(vs.result[1].issues, "FEDRAMP_MISSING_SYSTEM_NAME") = 1
    /\ CountCode(vs.result[1].issues, "FEDRAMP_MISSING_VERSION") = 0
    /\ CountCode(vs.result[1].issues, "FEDRAMP_MISSING_LAST_MODIFIED") = 1

(***************************************************************************)
(* The records of implemented-requirements.                                *)
(***************************************************************************)
\* The number of records whose list `field` is absent or empty.
RecordsLacking(d, field) ==
    LET reqs == RequirementsOf(d)
    IN  Cardinality({i \in 1..Len(reqs) :
                        IF field \in DOMAIN reqs[i].v THEN IsEmpty(reqs[i].v[field])
                        ELSE TRUE})

\* C23 as stated, for the runs in which no checker fails: every record of
\* implemented-requirements, one without a control-id or with an empty one
\* included and every duplicate by itself, gives one
\* FEDRAMP_MISSING_CONTROL_STATEMENTS error when its statements are empty or
\* absent and one FEDRAMP_MISSING_RESPONSIBLE_ROLES warning when its
\* responsible-roles are empty or absent.
C23_EveryRecordChecked ==
    (vs.pc = "returned" /\ vs.failed = 0) =>
        /\ CountIs(vs.result[1].issues, "FEDRAMP_MISSING_CONTROL_STATEMENTS",
                   RecordsLacking(vs.ssp_data, "statements"), "error")
        /\ CountIs(vs.result[1].issues, "FEDRAMP_MISSING_RESPONSIBLE_ROLES",
                   RecordsLacking(vs.ssp_data, "responsible-roles"), "warning")

(***************************************************************************)
(* The responsible-roles checker.                                          *)
(***************************************************************************)
\* The elements of the list metadata.<field>; none when it is no list.
MetadataList(d, field) ==
    LET l == FieldOf(d, "metadata", field)
    IN  IF l.t = "list" THEN l.v ELSE <<>>

\* The five role identifiers FedRAMP asks for that are the id of no entry of
\* metadata.roles.
RolesNotDefined(d) ==
    LET roles == MetadataList(d, "roles")
        ids == {roles[i].v["id"] : i \in {j \in 1..Len(roles) :
                    roles[j].t = "map" /\ "id" \in DOMAIN roles[j].v}}
    IN  {r \in {"system-owner", "authorizing-official", "system-administrator",
                "information-system-security-manager", "control-assessor"} :
            Str(r) \notin ids}

\* The entries of metadata.responsible-parties without party-uuids.
PartiesWithoutUuids(d) ==
    LET parties == MetadataList(d, "responsible-parties")
    IN  {i \in 1..Len(parties) :
            IF parties[i].t = "map" /\ "party-uuids" \in DOMAIN parties[i].v
            THEN IsEmpty(parties[i].v["party-uuids"])
            ELSE TRUE}

\* C24: when the responsible-roles checker is reached and completes, the
\* result holds as many FEDRAMP_MISSING_ROLE errors as there are identifiers
\* among system-owner, authorizing-official, system-administrator,
\* information-system-security-manager and control-assessor that are the id
\* of no entry of metadata.roles (5 without roles, 0 with all five), and as
\* many FEDRAMP_ROLE_WITHOUT_PARTY warnings as there are entries of
\* metadata.responsible-parties whose party-uuids are empty or absent.
C24_RolesAndParties ==
    (vs.pc = "returned" /\ 4 \in vs.ran) =>
        LET issues == vs.result[1].issues
        IN  /\ CountIs(issues, "FEDRAMP_MISSING_ROLE",
                       Cardinality(RolesNotDefined(vs.ssp_data)), "error")
            /\ CountIs(issues, "FEDRAMP_ROLE_WITHOUT_PARTY",
                       Cardinality(PartiesWithoutUuids(vs.ssp_data)), "warning")
            /\ FieldOf(vs.ssp_data, "metadata", "roles").t = "absent"
                  => CountCode(issues, "FEDRAMP_MISSING_ROLE") = 5

\* Two of the five roles are defined and two of three responsible parties
\* have no party: three errors and two warnings.
C24_Witness ==
    /\ vs.pc = "returned"
    /\ 4 \in vs.ran
    /\ RolesNotDefined(vs.ssp_data) =
          {"authorizing-official", "system-administrator",
           "information-system-security-manager"}
    /\ Cardinality(PartiesWithoutUuids(vs.ssp_data)) = 2
    /\ CountCode(vs.result[1].issues, "FEDRAMP_MISSING_ROLE") = 3
    /\ CountCode(vs.result[1].issues, "FEDRAMP_ROLE_WITHOUT_PARTY") = 2

(***************************************************************************)
(* The authorization-boundary checker.                                     *)
(***************************************************************************)
\* What the authorization-boundary checker reports for a document, given
\* whether the document counts as lacking the boundary and as lacking the
\* network architecture.
BoundaryIssuesAre(issues, d, lacks_boundary, lacks_network) ==
    LET boundary == FieldOf(d, "system-characteristics", "authorization-boundary")
        description == IF boundary.t = "map" /\ "description" \in DOMAIN boundary.v
                       THEN boundary.v["description"] ELSE Absent
        short == \/ IsEmpty(description)
                 \/ description.t = "str" /\ Len(Strip(description.v)) < 50
    IN  /\ CountIs(issues, "FEDRAMP_MISSING_AUTH_BOUNDARY", Bit(lacks_boundary), "error")
        /\ CountIs(issues, "FEDRAMP_INSUFFICIENT_AUTH_BOUNDARY",
                   Bit(~lacks_boundary /\ short), "warning")
        /\ CountIs(issues, "FEDRAMP_MISSING_NETWORK_ARCH", Bit(lacks_network), "warning")
        /\ CountCode(issues, "FEDRAMP_MISSING_AUTH_BOUNDARY")
              + CountCode(issues, "FEDRAMP_INSUFFICIENT_AUTH_BOUNDARY") <= 1

\* C25 as stated, for the runs in which no checker fails: an absent
\* authorization-boundary gives the error FEDRAMP_MISSING_AUTH_BOUNDARY, a
\* present one whose description is absent or under 50 trimmed characters,
\* an object without a description included, gives the warning
\* FEDRAMP_INSUFFICIENT_AUTH_BOUNDARY and not the error, never both, and
\* FEDRAMP_MISSING_NETWORK_ARCH is given exactly when network-architecture
\* is absent.
C25_BoundaryByKeyPresence ==
    (vs.pc = "returned" /\ vs.failed = 0) =>
        BoundaryIssuesAre(vs.result[1].issues, vs.ssp_data,
            FieldOf(vs.ssp_data, "system-characteristics",
                    "authorization-boundary").t = "absent",
            FieldOf(vs.ssp_data, "system-characteristics",
                    "network-architecture").t = "absent")

\* C25: when the authorization-boundary checker is reached and completes,
\* an authorization-boundary that is absent or empty gives the error
\* FEDRAMP_MISSING_AUTH_BOUNDARY; one that is not empty and whose
\* description is absent, empty or under 50 trimmed characters gives the
\* warning FEDRAMP_INSUFFICIENT_AUTH_BOUNDARY and not the error; the two
\* codes never occur together; and the warning FEDRAMP_MISSING_NETWORK_ARCH
\* is given exactly when network-architecture is absent or empty, whatever
\* the boundary.
C25_BoundaryIssues ==
    (vs.pc = "returned" /\ 6 \in vs.ran) =>
        BoundaryIssuesAre(vs.result[1].issues, vs.ssp_data,
            IsEmpty(FieldOf(vs.ssp_data, "system-characteristics",
                            "authorization-boundary")),
            IsEmpty(FieldOf(vs.ssp_data, "system-characteristics",
                            "network-architecture")))

\* A boundary that is an object without a description, in a plan without a
\* network architecture: the warning, not the error, and the network warning.
C25_Witness ==
    /\ vs.pc = "returned"
    /\ 6 \in vs.ran
    /\ FieldOf(vs.ssp_data, "system-characteristics", "authorization-boundary")
          = MkMap(<< <<"remarks", Str("see diagram")>> >>)
    /\ CountCode(vs.result[1].issues, "FEDRAMP_INSUFFICIENT_AUTH_BOUNDARY") = 1
    /\ CountCode(vs.result[1].issues, "FEDRAMP_MISSING_AUTH_BOUNDARY") = 0
    /\ CountCode(vs.result[1].issues, "FEDRAMP_MISSING_NETWORK_ARCH") = 1

(***************************************************************************)
(* C26: baselines the registry does not know.                              *)
(***************************************************************************)
BaselineCodes ==
    {"FEDRAMP_MISSING_REQUIRED_CONTROL", "FEDRAMP_INSUFFICIENT_CONTROLS",
     "FEDRAMP_MISSING_SYSTEM_NAME", "FEDRAMP_MISSING_SYSTEM_ID",
     "FEDRAMP_MISSING_ARTIFACT"}

\* What a returned validation under a baseline outside the registry shows:
\* the registry reads as its defaults, none of the baseline's issues occur,
\* and a checker fails only where it fails under a known baseline too.
UnknownBaselineIsHarmless ==
    LET reqs == BaselineReqs(baseline_requirements, vs.baseline)
        issues == vs.result[1].issues
    IN  /\ reqs.required_controls = <<>>
        /\ reqs.min_controls = 0
        /\ reqs.required_metadata = <<>>
        /\ \A i \in 1..Len(issues) : issues[i].code \notin BaselineCodes
        /\ vs.failed # 0 =>
              ValidateSsp(baseline_requirements, hash_seed, vs.ssp_data,
                          Str("moderate")).failed # 0

\* C26 as stated: for every baseline value outside {low, moderate, high} the
\* registry lookup is empty, validate_ssp returns a result without
\* FEDRAMP_MISSING_REQUIRED_CONTROL, FEDRAMP_INSUFFICIENT_CONTROLS,
\* FEDRAMP_MISSING_SYSTEM_NAME, FEDRAMP_MISSING_SYSTEM_ID and
\* FEDRAMP_MISSING_ARTIFACT, and the baseline causes no
\* FEDRAMP_VALIDATION_ERROR.
C26_UnknownBaselineValue ==
    (vs.pc \in {"returned", "raised"} /\ vs.baseline \notin KnownBaselines) =>
        vs.pc = "returned" /\ UnknownBaselineIsHarmless

\* C26: for every baseline string outside {low, moderate, high} the registry
\* lookup is empty, validate_ssp returns a result without
\* FEDRAMP_MISSING_REQUIRED_CONTROL, FEDRAMP_INSUFFICIENT_CONTROLS,
\* FEDRAMP_MISSING_SYSTEM_NAME, FEDRAMP_MISSING_SYSTEM_ID and
\* FEDRAMP_MISSING_ARTIFACT, and the baseline causes no
\* FEDRAMP_VALIDATION_ERROR: a checker fails only if it fails under a known
\* baseline as well.
C26_UnknownBaselineString ==
    (vs.pc \in {"returned", "raised"} /\ vs.baseline \notin KnownBaselines
        /\ vs.baseline.t = "str") =>
        vs.pc = "returned" /\ UnknownBaselineIsHarmless

\* A document without controls, metadata and back-matter is validated under
\* the baseline "bogus": every checker runs, and the data-flow checker still
\* reports under the unknown baseline.
C26_Witness ==
    /\ vs.pc = "returned"
    /\ vs.baseline = Str("bogus")
    /\ vs.failed = 0
    /\ vs.ran = 1..NumCheckers
    /\ RequirementsOf(vs.ssp_data) = <<>>
    /\ CountCode(vs.result[1].issues, "FEDRAMP_MISSING_DATA_FLOW") = 1

(***************************************************************************)
(* C27: the baselines ordered by stringency.                               *)
(***************************************************************************)
\* The required-control set the loaded registry holds for a baseline.
required_controls(baseline) ==
    LET controls == BaselineReqs(baseline_requirements, Str(baseline)).required_controls
    IN  {controls[i] : i \in 1..Len(controls)}

\* is_compliant of validate_ssp for the document of the current validation
\* under another baseline.
CompliantUnder(baseline) ==
    LET f == ValidateSsp(baseline_requirements, hash_seed, vs.ssp_data, Str(baseline))
    IN  f.pc = "returned" /\ f.result[1].is_compliant

\* C27 as stated: the required-control sets grow strictly from low to
\* moderate to high, moderate contains every low control and high every
\* moderate control, and a document compliant under high is compliant under
\* moderate, one compliant under moderate is compliant under low.
C27_BaselinesOrderedByStringency ==
    /\ Cardinality(required_controls("low")) < Cardinality(required_controls("moderate"))
    /\ Cardinality(required_controls("moderate")) < Cardinality(required_controls("high"))
    /\ required_controls("low") \subseteq required_controls("moderate")
    /\ required_controls("moderate") \subseteq required_controls("high")
    /\ (vs.pc = "returned" /\ vs.result[1].is_compliant) =>
          /\ vs.baseline = Str("high") => CompliantUnder("moderate")
          /\ vs.baseline = Str("moderate") => CompliantUnder("low")

(***************************************************************************)
(* C29: the required controls of a baseline and its minimum count.         *)
(***************************************************************************)
\* implemented-requirements holds one record per control the baseline
\* requires, every record with statements that are not empty, and no other
\* record.
ImplementsExactly(d, baseline) ==
    LET reqs == RequirementsOf(d)
    IN  /\ Len(reqs) = Cardinality(required_controls(baseline))
        /\ \A i \in 1..Len(reqs) :
              /\ reqs[i].t = "map"
              /\ "control-id" \in DOMAIN reqs[i].v
              /\ reqs[i].v["control-id"].t = "str"
              /\ reqs[i].v["control-id"].v \in required_controls(baseline)
              /\ "statements" \in DOMAIN reqs[i].v
              /\ ~IsEmpty(reqs[i].v["statements"])
        /\ ImplementedSet(d) = required_controls(baseline)

ControlErrorCodes ==
    {"FEDRAMP_MISSING_CONTROL_STATEMENTS", "FEDRAMP_MISSING_REQUIRED_CONTROL",
     "FEDRAMP_INSUFFICIENT_CONTROLS"}

\* C29 as stated: under each of the three baselines a document that
\* implements exactly the baseline's required controls gets no error of the
\* control-implementation checker, FEDRAMP_INSUFFICIENT_CONTROLS included:
\* the baseline requires at least min_controls controls.
C29_RequiredControlsSuffice ==
    \A baseline \in {"low", "moderate", "high"} :
        (/\ vs.pc = "returned"
         /\ 3 \in vs.ran
         /\ vs.baseline = Str(baseline)
         /\ ImplementsExactly(vs.ssp_data, baseline)) =>
            /\ \A i \in 1..Len(vs.result[1].issues) :
                  vs.result[1].issues[i].code \notin ControlErrorCodes
            /\ Cardinality(required_controls(baseline))
                  >= baseline_requirements[baseline].min_controls

(***************************************************************************)
(* C28: the semaphore of batch validation.                                 *)
(***************************************************************************)
\* The per-file validations that hold a permit: past the entry into
\* `async with semaphore`, their temp file not yet removed.
InProgress ==
    {i \in 1..Len(request.tasks) : request.tasks[i].pc \in {"flush", "read"}}

AllFilesDone ==
    /\ request.endpoint = "batch"
    /\ request.pc = "gather"
    /\ \A i \in 1..Len(request.tasks) :
          request.tasks[i].pc = "done" /\ Len(request.tasks[i].entry) = 1

\* The batch endpoint by itself, for the batches of up to MaxFiles files
\* that begin with the catalog, a batch of two files more than there are
\* permits and a batch past the limit.
BatchNext ==
    \/ DatabaseFails
    \/ BatchArrives({b \in BatchRequests :
                        /\ Len(b.files) # BatchLimit
                        /\ b.files # <<>> => b.files[1].filename \in {"catalog.json", "ssp.xml"}}
                    \cup {[files |-> [i \in 1..(Permits + 2) |-> UploadKinds[(i % 3) + 1]],
                           baseline |-> Str("low"), patched |-> FALSE]})
    \/ BatchCommit
    \/ \E i \in 1..BatchLimit :
          /\ i <= Len(request.tasks)
          /\ \/ TaskStart(i)
             \/ TaskFlush(i)
             \/ TaskValidate(i)
    \/ BatchRespond
    \/ BatchFailed
    \/ RequestDone

\* The handler of the batch request is resumed whenever it can go on: the
\* event loop runs every coroutine that is ready.
BatchSpec ==
    /\ Init
    /\ [][BatchNext]_vars
    /\ WF_vars(\/ BatchCommit
               \/ \E i \in 1..BatchLimit :
                     /\ i <= Len(request.tasks)
                     /\ \/ TaskStart(i)
                        \/ TaskFlush(i)
                        \/ TaskValidate(i)
               \/ BatchRespond
               \/ BatchFailed)

\* C28: in batch validation at most 3 per-file validations are in progress
\* at any moment, every validation that ended, failed ones included, has
\* given its permit back (the free permits are the 3 less the validations
\* in progress), every submitted file eventually has its result, and the
\* batch request is eventually answered.
C28_BoundedAndTerminating ==
    /\ [](/\ Cardinality(InProgress) <= Permits
          /\ request.semaphore = Permits - Cardinality(InProgress))
    /\ (request.endpoint = "batch" /\ request.pc = "gather") ~> AllFilesDone
    /\ (request.endpoint = "batch" /\ request.pc \in {"commit", "gather", "failed"})
          ~> (request.pc = "responded")

\* Three validations of a batch hold the permits, a further file waits, and
\* a validation that failed has ended and left its error entry.
C28_Witness ==
    /\ request.pc = "gather"
    /\ Cardinality(InProgress) = Permits
    /\ request.semaphore = 0
    /\ \E i \in 1..Len(request.tasks) : request.tasks[i].pc = "waiting"
    /\ \E i \in 1..Len(request.tasks) :
          /\ request.tasks[i].pc = "done"
          /\ "error" \in DOMAIN request.tasks[i].entry[1]

(***************************************************************************)
(* C30: routing by the supplied document type.                             *)
(***************************************************************************)
\* validate_document called validate_ssp, which ran its chain of checkers
\* to the end or to the checker that failed.
WentThroughTheChain ==
    \/ vd.pc = "awaiting"
    \/ /\ vd.pc = "returned"
       /\ 1 \in vd.ran
       /\ \/ vd.ran = 1..NumCheckers
          \/ CountCode(vd.result[1].issues, "FEDRAMP_VALIDATION_ERROR") = 1

\* validate_document handed back the compliant placeholder for the type
\* `dt` and called no checker.
PassedUnchecked(dt) ==
    /\ vd.pc = "returned"
    /\ vs.pc = "idle"
    /\ vd.ran = {}
    /\ vd.result[1].is_compliant
    /\ vd.result[1].document_type = dt
    /\ Len(vd.result[1].issues) = 1
    /\ vd.result[1].issues[1].code = "FEDRAMP_UNSUPPORTED_DOCUMENT"

\* The routing of a decoded document when `supplied` tells whether the
\* document_type argument counts as supplied.
RoutedBySuppliedType(supplied) ==
    (vd.pc # "idle" /\ Decoded(vd.source)) =>
        /\ supplied => vd.document_type = vd.given
        /\ (supplied /\ vd.given.v = "system-security-plan") => WentThroughTheChain
        /\ (supplied /\ vd.given.v # "system-security-plan") => PassedUnchecked(vd.given.v)
        /\ (~supplied /\ CanContain(vd.source.tree)) =>
              vd.document_type = Str(DetectDocumentType(vd.source.tree))

\* C30 as stated: the detector runs only when no document type is supplied;
\* a supplied system-security-plan sends the document through the chain of
\* checkers whatever its top-level keys are, and any other supplied type
\* gives the compliant placeholder with no checker run.
C30_RoutingBySuppliedType ==
    RoutedBySuppliedType(vd.given # Null)

\* C30: the detector runs only when no document type or an empty one is
\* supplied; a supplied system-security-plan sends a decoded document
\* through the chain of checkers whatever its top-level keys are, and any
\* other supplied type that is not empty gives the compliant placeholder
\* with no checker run, even when the document has the key
\* system-security-plan.
C30_RoutingByNonEmptyType ==
    RoutedBySuppliedType(Truthy(vd.given))

\* A document with the key system-security-plan was handed in as a catalog
\* and passed unchecked.
C30_Witness ==
    /\ vd.pc = "returned"
    /\ Decoded(vd.source)
    /\ vd.given = Str("catalog")
    /\ vd.source.tree.t = "map"
    /\ "system-security-plan" \in DOMAIN vd.source.tree.v
    /\ PassedUnchecked("catalog")
====
